---- MODULE Spec2Model ----
(***************************************************************************)
(* Model of the life-hub household client: the grocery history aggregation *)
(* (Previously Ordered / Frequently Bought queries of GroceryList.tsx) and *)
(* the multi-collection Search component, over a model of the remote       *)
(* relational store.                                                        *)
(*                                                                         *)
(* Strings are sequences of character codes, so that toLowerCase, trim,    *)
(* ILIKE matching and the store's text ordering are computed.              *)
(***************************************************************************)
EXTENDS Integers, Sequences, FiniteSets, TLC

VARIABLES
    collation,          \* text collation of the store ("C" or "en_US")
    lists,              \* table lists: sequence of rows in physical order
    list_items,         \* table list_items, physical order
    list_history,       \* table list_history, physical (= insertion) order
    notes,              \* table notes, physical order
    events,             \* table events, physical order
    tasks,              \* table tasks, physical order
    previousWeekData,   \* rows `data` fetched by the previous-week query
    previousWeekItems,  \* data of query ['previous-week-items', list.id]
    historyData,        \* rows fetched by the frequent-items query
    counts,             \* `counts` of the frequent-items queryFn after forEach
    textMap,            \* `textMap` of the frequent-items queryFn after forEach
    frequentItems,      \* data of query ['frequent-items', list.id]
    fetched,            \* set of query keys that have run
    searchTerm,         \* Search component state
    searchCache,        \* query cache: set of [term, data] for key ['search', hh, term]
    queried,            \* search terms for which remote queries were issued
    runs,               \* the executions of the search queryFn (last two)
    previousWeekCalls,  \* the results returned by the previous-week queryFn, in call order
    inflight,           \* search fetches started and not yet settled
    superseded,         \* terms whose response arrived after the term had changed
    items,              \* data of query ['list-items', list.id] (the client's cached rows)
    currentWeek,        \* the week the client's clock is in
    startFresh,         \* outcomes of the Start Fresh runs that found completed items
    nextId,             \* the id the store gives to the next inserted list item
    lastAction,         \* the operation of the grocery views that ran last
    queryState,         \* query cache: state of each cached query key
    mutationLog,        \* the mutations settled so far, with their outcome
    banner,             \* the error message visible to the user, if any
    newPassword,        \* Settings form field
    confirmPassword,    \* Settings form field
    passwordMessage,    \* Settings: passwordMessage state
    updateUserCalls,    \* passwords sent to supabase.auth.updateUser
    submits,            \* number of submits of the change-password form
    userId,             \* the signed-in user of this client
    notesData,          \* data of query ['notes', householdId] (QuickNotes)
    recentNotes,        \* data of query ['dashboard-notes', householdId]
    nextNoteId,         \* the id the store gives to the next inserted note
    today,              \* the client's clock: hours since a Sunday 00:00 UTC
    utcOffset,          \* the client's time zone: local time = UTC + utcOffset hours
    weekStartCall,      \* the last weekStart computed by Start Fresh, with its inputs
    clients,            \* per client: the position of its get-or-create of the grocery list
    newItemText,        \* GroceryList: add form field
    newItemQuantity,    \* GroceryList: quantity field of the quantity dialog
    pendingItemText,    \* GroceryList: the text the quantity dialog is about
    showQuantityDialog, \* GroceryList: whether the quantity dialog is open
    groceryItem,        \* Dashboard: item field of the grocery modal
    groceryQuantity,    \* Dashboard: quantity field of the grocery modal
    household_members,  \* table household_members, physical order
    members,            \* per session: data of query ['household-members', householdId]
    addMember,          \* per session: the position of its addMemberMutation
    message,            \* per session: Settings `message` state
    memberLog,          \* the membership requests sent to the store, in order
    currentMonth,       \* Calendar: the displayed month, in months since January of year 0
    eventsCache,        \* query cache of ['events', householdId, month number]
    eventFetches,       \* number of executions of the events queryFn
    nextEventId         \* the id the store gives to the next inserted event

callVars     == <<previousWeekCalls>>
raceVars     == <<inflight, superseded>>
groceryVars  == <<items, currentWeek, startFresh, nextId, lastAction>>
viewVars     == <<queryState, mutationLog, banner>>
passwordVars == <<newPassword, confirmPassword, passwordMessage, updateUserCalls,
                  submits>>
notesVars    == <<userId, notesData, recentNotes, nextNoteId>>
clockVars    == <<today, utcOffset, weekStartCall>>
listRaceVars == <<clients>>
formVars     == <<newItemText, newItemQuantity, pendingItemText, showQuantityDialog,
                  groceryItem, groceryQuantity>>
memberVars   == <<household_members, members, addMember, message, memberLog>>
calendarVars == <<currentMonth, eventsCache, eventFetches, nextEventId>>
extraVars    == <<notesVars, clockVars, listRaceVars, formVars, memberVars, calendarVars>>

vars == <<collation, lists, list_items, list_history, notes, events, tasks,
          previousWeekData, previousWeekItems, historyData, counts, textMap,
          frequentItems, fetched, searchTerm, searchCache, queried, runs,
          callVars, raceVars, groceryVars, viewVars, passwordVars, extraVars>>

---------------------------------------------------------------------------
(* Characters and strings *)

Range(s) == {s[i] : i \in DOMAIN s}

IsUpper(c) == c \in 65..90
IsDigit(c) == c \in 48..57
IsSpace(c) == c \in {9, 10, 11, 12, 13, 32}

LowerChar(c) == IF IsUpper(c) THEN c + 32 ELSE c

\* String.prototype.toLowerCase
toLowerCase(s) == [i \in 1..Len(s) |-> LowerChar(s[i])]

RECURSIVE trimStart(_)
trimStart(s) == IF s # <<>> /\ IsSpace(Head(s)) THEN trimStart(Tail(s)) ELSE s

RECURSIVE trimEnd(_)
trimEnd(s) ==
    IF s # <<>> /\ IsSpace(s[Len(s)]) THEN trimEnd(SubSeq(s, 1, Len(s) - 1)) ELSE s

\* String.prototype.trim
trim(s) == trimEnd(trimStart(s))

\* The texts used as inputs
T_Milk        == <<77, 105, 108, 107>>
T_milk        == <<109, 105, 108, 107>>
T_milkSpaced  == <<32, 109, 105, 108, 107, 32>>
T_Bread       == <<66, 114, 101, 97, 100>>
T_Eggs        == <<69, 103, 103, 115>>
T_7           == <<55>>
T_12          == <<49, 50>>
T_constructor == <<99, 111, 110, 115, 116, 114, 117, 99, 116, 111, 114>>
T_proto       == <<95, 95, 112, 114, 111, 116, 111, 95, 95>>
T_Apples      == <<65, 112, 112, 108, 101, 115>>
T_Rice        == <<82, 105, 99, 101>>
T_Tea         == <<84, 101, 97>>
T_Jam         == <<74, 97, 109>>
T_Oats        == <<79, 97, 116, 115>>
T_OatMilk     == <<79, 97, 116, 32, 109, 105, 108, 107>>
T_similar     == <<115, 105, 109, 105, 108, 97, 114>>
T_MilkRun     == <<77, 105, 108, 107, 32, 114, 117, 110>>
T_BuyMilk     == <<66, 117, 121, 32, 32, 109, 105, 108, 107>>
T_m           == <<109>>
T_mi          == <<109, 105>>
T_spaceM      == <<32, 109>>
T_twoSpaces   == <<32, 32>>

---------------------------------------------------------------------------
(* The remote store: ordering of text columns *)

RECURSIVE LexLess(_, _)
LexLess(a, b) ==
    IF b = <<>> THEN FALSE
    ELSE IF a = <<>> THEN TRUE
    ELSE IF Head(a) # Head(b) THEN Head(a) < Head(b)
    ELSE LexLess(Tail(a), Tail(b))

\* a strictly before b in ORDER BY text ASC.  Under "C" strings compare by
\* character code; under "en_US" they compare ignoring case first and, when
\* equal ignoring case, lower case sorts before upper case.
TextLess(coll, a, b) ==
    IF coll = "C" THEN LexLess(a, b)
    ELSE IF toLowerCase(a) # toLowerCase(b)
         THEN LexLess(toLowerCase(a), toLowerCase(b))
         ELSE LexLess(b, a)

TextLeq(coll, a, b) == a = b \/ TextLess(coll, a, b)

\* SELECT ... WHERE P without ORDER BY: the matching rows in physical order
RECURSIVE SelectSeq2(_, _)
SelectSeq2(rows, keep) ==
    IF rows = <<>> THEN <<>>
    ELSE IF Head(rows) \in keep
         THEN <<Head(rows)>> \o SelectSeq2(Tail(rows), keep)
         ELSE SelectSeq2(Tail(rows), keep)

IndexPermutations(n) ==
    {p \in [1..n -> 1..n] : \A i, j \in 1..n : i # j => p[i] # p[j]}

\* ORDER BY text ASC: every arrangement of the rows that is ascending in text
\* (the order among rows with equal text is not specified by the store)
OrderByText(coll, rows) ==
    {[i \in 1..Len(rows) |-> rows[p[i]]] : p \in
        {q \in IndexPermutations(Len(rows)) :
            \A i, j \in 1..Len(rows) :
                i < j => TextLeq(coll, rows[q[i]].text, rows[q[j]].text)}}

\* ORDER BY week_start DESC LIMIT 1 then .single(): the greatest week_start
\* of the rows, or "no row" (0) when there is none
NoWeek == 0
LatestWeekAsc(rows) ==
    IF rows = <<>> THEN NoWeek
    ELSE CHOOSE w \in {rows[i].week_start : i \in DOMAIN rows} :
            \A i \in DOMAIN rows : w <= rows[i].week_start
LatestWeek(rows) ==
    IF rows = <<>> THEN NoWeek
    ELSE CHOOSE w \in {rows[i].week_start : i \in DOMAIN rows} :
            \A i \in DOMAIN rows : w >= rows[i].week_start

---------------------------------------------------------------------------
(* GroceryList: the previous-week ('Previously Ordered') query *)

TheList   == 1      \* list.id of the household's grocery list
OtherList == 2      \* a list of another household

HistoryOfList(rows, listId) ==
    SelectSeq2(rows, {r \in Range(rows) : r.list_id = listId})

\* self.findIndex((t) => t.text.toLowerCase() === item.text.toLowerCase())
FindLastIndex(self, item) ==
    CHOOSE j \in DOMAIN self :
        /\ toLowerCase(self[j].text) = toLowerCase(item.text)
        /\ \A k \in DOMAIN self :
              toLowerCase(self[k].text) = toLowerCase(item.text) => k <= j
FindIndex(self, item) ==
    CHOOSE j \in DOMAIN self :
        /\ toLowerCase(self[j].text) = toLowerCase(item.text)
        /\ \A k \in DOMAIN self :
              toLowerCase(self[k].text) = toLowerCase(item.text) => j <= k

\* data.filter((item, index, self) => index === self.findIndex(...))
RECURSIVE FilterFirst(_, _)
FilterFirst(self, index) ==
    IF index > Len(self) THEN <<>>
    ELSE IF index = FindIndex(self, self[index])
         THEN <<self[index]>> \o FilterFirst(self, index + 1)
         ELSE FilterFirst(self, index + 1)

UniqueItems(data) == FilterFirst(data, 1)

\* .select('text, quantity')
TextQuantity(rows) ==
    [i \in 1..Len(rows) |-> [text |-> rows[i].text, quantity |-> rows[i].quantity]]

\* the rows of the second select: list_id = list.id, week_start = latest,
\* ORDER BY text ASC
WeekRowsUnordered(coll, rows) == {TextQuantity(rows)}
WeekRows(coll, rows) == {TextQuantity(d) : d \in OrderByText(coll, rows)}

\* the queryFn runs again on every refetch of ['previous-week-items', list.id]
MaxCalls == 2

PreviousWeekQuery ==
    LET mine   == HistoryOfList(list_history, TheList)
        latest == LatestWeek(mine)
        week   == SelectSeq2(mine, {r \in Range(mine) : r.week_start = latest})
    IN  /\ lists # <<>>
        /\ Len(previousWeekCalls) < MaxCalls
        /\ IF latest = NoWeek
           THEN /\ previousWeekData' = <<>>
                /\ previousWeekItems' = <<>>
           ELSE \E data \in WeekRows(collation, week) :
                /\ previousWeekData' = data
                /\ previousWeekItems' = UniqueItems(data)
        /\ fetched' = fetched \cup {"previous-week-items"}
        /\ previousWeekCalls' = Append(previousWeekCalls, previousWeekItems')
        /\ UNCHANGED <<collation, lists, list_items, list_history, notes,
                       events, tasks, historyData, counts, textMap, frequentItems,
                       searchTerm, searchCache, queried, runs,
                       raceVars, groceryVars, viewVars, passwordVars, extraVars>>

---------------------------------------------------------------------------
(* JavaScript values and plain objects, as the frequent-items query uses   *)
(* them: `counts` and `textMap` are object literals, so property reads go  *)
(* through Object.prototype and Object.entries enumerates integer-like     *)
(* keys first.                                                             *)

Undefined   == [kind |-> "undefined", num |-> 0, str |-> <<>>]
Num(n)      == [kind |-> "number", num |-> n, str |-> <<>>]
Str(s)      == [kind |-> "string", num |-> 0, str |-> s]
ObjectValue == [kind |-> "object", num |-> 0, str |-> <<>>]

Truthy(v) ==
    CASE v.kind = "undefined" -> FALSE
      [] v.kind = "number"    -> v.num # 0
      [] v.kind = "string"    -> v.str # <<>>
      [] OTHER                -> TRUE

\* the members of Object.prototype whose names are entirely lower case
ObjectPrototypeKeys == {T_constructor, T_proto}

\* String(Object) starts "function Object() ...", String(Object.prototype)
\* is "[object Object]"; only the fact that neither is numeric matters
T_function     == <<102, 117, 110, 99, 116, 105, 111, 110>>
T_objectObject == <<91, 111, 98, 106, 101, 99, 116, 93>>

HasOwn(o, k) == \E i \in DOMAIN o : o[i].key = k
GetOwn(o, k) == o[CHOOSE i \in DOMAIN o : o[i].key = k].value

\* o[k]
GetProp(o, k) ==
    IF HasOwn(o, k) THEN GetOwn(o, k)
    ELSE IF k \in ObjectPrototypeKeys THEN ObjectValue
    ELSE Undefined

\* o[k] = v for a primitive v (the __proto__ setter ignores primitives)
SetProp(o, k, v) ==
    IF k = T_proto THEN o
    ELSE IF HasOwn(o, k)
         THEN [i \in DOMAIN o |-> IF o[i].key = k THEN [key |-> k, value |-> v] ELSE o[i]]
         ELSE Append(o, [key |-> k, value |-> v])

\* v || 0
OrZero(v) == IF Truthy(v) THEN v ELSE Num(0)

\* v + 1
PlusOne(v, k) ==
    CASE v.kind = "number" -> Num(v.num + 1)
      [] v.kind = "string" -> Str(v.str \o <<49>>)
      [] OTHER -> Str((IF k = T_constructor THEN T_function ELSE T_objectObject) \o <<49>>)

RECURSIVE DigitsValue(_)
DigitsValue(s) ==
    IF s = <<>> THEN 0 ELSE 10 * DigitsValue(SubSeq(s, 1, Len(s) - 1)) + (s[Len(s)] - 48)

AllDigits(s) == \A i \in DOMAIN s : IsDigit(s[i])

\* ToNumber(v) is NaN
IsNaN(v) ==
    CASE v.kind = "number" -> FALSE
      [] v.kind = "string" -> ~AllDigits(v.str)
      [] OTHER -> TRUE

ToNumber(v) == IF v.kind = "number" THEN v.num ELSE DigitsValue(v.str)

\* v >= n
GreaterEq(v, n) == ~IsNaN(v) /\ ToNumber(v) >= n

\* a canonical array index: "0", or digits without a leading zero, below
\* 2^32 - 1 (keys of up to nine digits; longer keys are not used here)
IsArrayIndex(k) ==
    /\ k # <<>>
    /\ AllDigits(k)
    /\ (Len(k) = 1 \/ k[1] # 48)
    /\ Len(k) <= 9

\* Object.entries(o): integer-like keys in ascending numeric order, then the
\* other keys in the order the properties were created
RECURSIVE AscendingIndexEntries(_)
AscendingIndexEntries(es) ==
    IF es = {} THEN <<>>
    ELSE LET m == CHOOSE e \in es :
                    \A f \in es : DigitsValue(e.key) <= DigitsValue(f.key)
         IN  <<m>> \o AscendingIndexEntries(es \ {m})

ObjectEntries(o) ==
    AscendingIndexEntries({e \in Range(o) : IsArrayIndex(e.key)})
        \o SelectSeq2(o, {e \in Range(o) : ~IsArrayIndex(e.key)})

---------------------------------------------------------------------------
(* GroceryList: the frequent-items ('Frequently Bought') query *)

MinCount      == 2
FrequentLimit == 8

\* const lowerText = historyItem.text.toLowerCase().trim()
LowerText(text) == trim(toLowerCase(text))

\* textMap after one forEach step
TextMapLast(tmap, text) == SetProp(tmap, LowerText(text), Str(trim(text)))
TextMapStep(tmap, text) ==
    IF ~Truthy(GetProp(tmap, LowerText(text)))
    THEN SetProp(tmap, LowerText(text), Str(trim(text)))
    ELSE tmap

\* counts after one forEach step
CountsStep(cnts, text) ==
    SetProp(cnts, LowerText(text),
            PlusOne(OrZero(GetProp(cnts, LowerText(text))), LowerText(text)))

\* historyData.forEach(...): the final counts and textMap (the object
\* before the last step is computed first, then the step is applied to it)
RECURSIVE Counts(_)
Counts(data) ==
    IF data = <<>> THEN <<>>
    ELSE CHOOSE after \in
            {CountsStep(before, data[Len(data)].text) :
                before \in {Counts(SubSeq(data, 1, Len(data) - 1))}} : TRUE

RECURSIVE TextMap(_)
TextMap(data) ==
    IF data = <<>> THEN <<>>
    ELSE CHOOSE after \in
            {TextMapStep(before, data[Len(data)].text) :
                before \in {TextMap(SubSeq(data, 1, Len(data) - 1))}} : TRUE

\* .filter(([_, count]) => count >= 2)
FilterAtLeastOne(entries) ==
    SelectSeq2(entries, {e \in Range(entries) : GreaterEq(e.value, MinCount - 1)})
FilterFrequent(entries) ==
    SelectSeq2(entries, {e \in Range(entries) : GreaterEq(e.value, MinCount)})

\* .sort((a, b) => b[1] - a[1]); Array.prototype.sort is stable
RECURSIVE InsertByCount(_, _)
InsertByCount(sorted, e) ==
    IF sorted = <<>> THEN <<e>>
    ELSE IF ToNumber(e.value) - ToNumber(Head(sorted).value) > 0
         THEN <<e>> \o sorted
         ELSE <<Head(sorted)>> \o InsertByCount(Tail(sorted), e)

RECURSIVE SortByCountDesc(_)
SortByCountDesc(entries) ==
    IF entries = <<>> THEN <<>>
    ELSE InsertByCount(SortByCountDesc(SubSeq(entries, 1, Len(entries) - 1)),
                       entries[Len(entries)])

\* .slice(0, 8)
Slice(s, n) == SubSeq(s, 1, IF Len(s) < n THEN Len(s) ELSE n)

\* Object.entries(counts).filter(...).sort(...).slice(0, 8).map(...)
Frequent(cnts, tmap) ==
    LET top == Slice(SortByCountDesc(FilterFrequent(ObjectEntries(cnts))), FrequentLimit)
    IN  [i \in 1..Len(top) |-> GetProp(tmap, top[i].key).str]

\* .select('text')
TextOnly(rows) == [i \in 1..Len(rows) |-> [text |-> rows[i].text]]

FrequentQuery ==
    /\ lists # <<>>
    /\ historyData' = TextOnly(HistoryOfList(list_history, TheList))
    /\ counts' = Counts(historyData')
    /\ textMap' = TextMap(historyData')
    /\ frequentItems' = Frequent(counts', textMap')
    /\ fetched' = fetched \cup {"frequent-items"}
    /\ UNCHANGED <<collation, lists, list_items, list_history, notes, events,
                   tasks, previousWeekData, previousWeekItems, searchTerm,
                   searchCache, queried, runs,
                   callVars, raceVars, groceryVars, viewVars, passwordVars, extraVars>>

---------------------------------------------------------------------------
(* Initial states shared by the specifications *)

TheHousehold == 1

NoSearchState ==
    /\ searchTerm = <<>>
    /\ searchCache = <<>>
    /\ queried = {}
    /\ runs = <<>>

NoQueryState ==
    /\ previousWeekCalls = <<>>
    /\ previousWeekData = <<>>
    /\ previousWeekItems = <<>>
    /\ historyData = <<>>
    /\ counts = <<>>
    /\ textMap = <<>>
    /\ frequentItems = <<>>
    /\ fetched = {}

NoRaceState ==
    /\ inflight = <<>>
    /\ superseded = {}

NoGroceryState ==
    /\ items = <<>>
    /\ currentWeek = 1
    /\ startFresh = <<>>
    /\ nextId = 1
    /\ lastAction = "none"

NoViewState ==
    /\ queryState = <<>>
    /\ mutationLog = <<>>
    /\ banner = [type |-> "none", of |-> "none"]

NoPasswordState ==
    /\ newPassword = <<>>
    /\ confirmPassword = <<>>
    /\ passwordMessage = [type |-> "none", text |-> ""]
    /\ updateUserCalls = <<>>
    /\ submits = 0

TheUser   == 1      \* the user signed in on this client
OtherUser == 2      \* another member of the household

NoNotesState ==
    /\ userId = TheUser
    /\ notesData = <<>>
    /\ recentNotes = <<>>
    /\ nextNoteId = 1

NoCall == [made |-> FALSE, today |-> 0, utcOffset |-> 0, week_start |-> 0]

NoClockState ==
    /\ today = 0
    /\ utcOffset = 0
    /\ weekStartCall = NoCall

NoClients ==
    /\ clients = <<>>

NoFormState ==
    /\ newItemText = <<>>
    /\ newItemQuantity = <<>>
    /\ pendingItemText = <<>>
    /\ showQuantityDialog = FALSE
    /\ groceryItem = <<>>
    /\ groceryQuantity = <<>>

NoMemberState ==
    /\ household_members = <<>>
    /\ members = <<>>
    /\ addMember = <<>>
    /\ message = <<>>
    /\ memberLog = <<>>

NoCalendarState ==
    /\ currentMonth = 0
    /\ eventsCache = <<>>
    /\ eventFetches = 0
    /\ nextEventId = 1

NoExtraState ==
    /\ NoNotesState
    /\ NoClockState
    /\ NoClients
    /\ NoFormState
    /\ NoMemberState
    /\ NoCalendarState

OneGroceryList == <<[id |-> TheList, household_id |-> TheHousehold]>>

\* list_history rows: the quantity of a row is its insertion number, so that
\* every archived row is distinguishable in a query result
HistoryRow(i, listId, text, week) ==
    [list_id |-> listId, text |-> text, quantity |-> i, week_start |-> week]

---------------------------------------------------------------------------
(* Specification of the previous-week query over bounded histories *)

MaxWeekHistory == 3
MaxWeek        == 2

WeekTexts == {T_Milk, T_milk, T_Bread}

\* the rows a history is drawn from: rows of the list in any week, and a
\* row of another list dated after every week of the list
WeekRowChoices ==
    ({TheList} \X WeekTexts \X (1..MaxWeek)) \cup {<<OtherList, T_Milk, MaxWeek + 1>>}

WeekHistories ==
    UNION {
        {[i \in 1..n |-> HistoryRow(i, f[i][1], f[i][2], f[i][3])] :
            f \in [1..n -> WeekRowChoices]}
        : n \in 0..MaxWeekHistory}

InitPreviousWeek ==
    /\ collation \in {"C", "en_US"}
    /\ lists = OneGroceryList
    /\ list_items = <<>>
    /\ list_history \in WeekHistories
    /\ notes = <<>>
    /\ events = <<>>
    /\ tasks = <<>>
    /\ NoQueryState
    /\ NoSearchState
    /\ NoRaceState
    /\ NoGroceryState
    /\ NoViewState
    /\ NoPasswordState
    /\ NoExtraState

NextPreviousWeek == PreviousWeekQuery

SpecPreviousWeek == InitPreviousWeek /\ [][NextPreviousWeek]_vars

---------------------------------------------------------------------------
(* Specification of the frequent-items query over bounded histories *)

MaxFreqHistory == 4

FreqTexts == {T_Milk, T_milk, T_milkSpaced, T_7, T_constructor}

FreqRowChoices == ({TheList} \X FreqTexts) \cup {<<OtherList, T_milk>>}

FreqHistories ==
    UNION {
        {[i \in 1..n |-> HistoryRow(i, f[i][1], f[i][2], (i % 2) + 1)] :
            f \in [1..n -> FreqRowChoices]}
        : n \in 0..MaxFreqHistory}

InitFrequent ==
    /\ collation = "C"
    /\ lists = OneGroceryList
    /\ list_items = <<>>
    /\ list_history \in FreqHistories
    /\ notes = <<>>
    /\ events = <<>>
    /\ tasks = <<>>
    /\ NoQueryState
    /\ NoSearchState
    /\ NoRaceState
    /\ NoGroceryState
    /\ NoViewState
    /\ NoPasswordState
    /\ NoExtraState

NextFrequent == FrequentQuery

SpecFrequent == InitFrequent /\ [][NextFrequent]_vars

---------------------------------------------------------------------------
(* Properties of the previous-week query *)

MyHistory == HistoryOfList(list_history, TheList)

PreviousFetched == "previous-week-items" \in fetched
FrequentFetched == "frequent-items" \in fetched

\* the insertion numbers of the rows of the list's newest week
NewestWeekRows ==
    {j \in DOMAIN list_history :
        /\ list_history[j].list_id = TheList
        /\ \A k \in DOMAIN list_history :
              list_history[k].list_id = TheList
                  => list_history[k].week_start <= list_history[j].week_start}

\* C1: the latest-week query returns only history entries of the list whose
\* week_start is the maximum week_start of that list's history, and the
\* empty list when the list has no history
C1_LatestWeekOnly ==
    PreviousFetched =>
        /\ MyHistory = <<>> => previousWeekItems = <<>>
        /\ \A i \in DOMAIN previousWeekItems :
              \E j \in NewestWeekRows :
                  /\ previousWeekItems[i].text = list_history[j].text
                  /\ previousWeekItems[i].quantity = list_history[j].quantity

C1_Witness ==
    /\ PreviousFetched
    /\ previousWeekItems # <<>>
    /\ \E j, k \in DOMAIN MyHistory : MyHistory[j].week_start < MyHistory[k].week_start
    /\ \E j \in DOMAIN list_history : list_history[j].list_id = OtherList

SameIgnoringCase(a, b) == toLowerCase(a) = toLowerCase(b)

NoCaseDuplicates(entries) ==
    \A i, j \in DOMAIN entries :
        i # j => ~SameIgnoringCase(entries[i].text, entries[j].text)

\* C2 as stated: no two entries are equal ignoring case, and the entry kept
\* for a text is the first occurrence in the insertion order of the history
C2_FirstInsertedKept ==
    PreviousFetched =>
        /\ NoCaseDuplicates(previousWeekItems)
        /\ \A i \in DOMAIN previousWeekItems :
              \E j \in NewestWeekRows :
                  /\ previousWeekItems[i].text = list_history[j].text
                  /\ previousWeekItems[i].quantity = list_history[j].quantity
                  /\ \A k \in NewestWeekRows :
                        SameIgnoringCase(list_history[k].text, list_history[j].text)
                            => j <= k

\* C2 amended: no two entries are equal ignoring case, every text of the
\* week is represented, and the entry kept for a text is its first
\* occurrence in the rows as the text-ascending select returned them
C2_FirstFetchedKept ==
    PreviousFetched =>
        /\ NoCaseDuplicates(previousWeekItems)
        /\ \A k \in DOMAIN previousWeekData :
              \E i \in DOMAIN previousWeekItems :
                  SameIgnoringCase(previousWeekItems[i].text, previousWeekData[k].text)
        /\ \A i \in DOMAIN previousWeekItems :
              \E j \in DOMAIN previousWeekData :
                  /\ previousWeekItems[i] = previousWeekData[j]
                  /\ \A k \in 1..(j - 1) :
                        ~SameIgnoringCase(previousWeekData[k].text, previousWeekData[j].text)

C2_Witness ==
    /\ PreviousFetched
    /\ Len(previousWeekItems) < Len(previousWeekData)
    /\ \E j, k \in DOMAIN previousWeekData :
          /\ j # k
          /\ previousWeekData[j].text # previousWeekData[k].text
          /\ SameIgnoringCase(previousWeekData[j].text, previousWeekData[k].text)

\* C3 as stated: the kept entries appear in the insertion order of the
\* history (the quantity of a row is its insertion number)
C3_InsertionOrder ==
    PreviousFetched =>
        \A i, j \in DOMAIN previousWeekItems :
            i < j => previousWeekItems[i].quantity < previousWeekItems[j].quantity

\* C3 amended: the kept entries appear in ascending order of text under the
\* store's collation, whatever the insertion order was
C3_TextOrder ==
    PreviousFetched =>
        \A i, j \in DOMAIN previousWeekItems :
            i < j => TextLess(collation, previousWeekItems[i].text,
                              previousWeekItems[j].text)

C3_Witness ==
    /\ PreviousFetched
    /\ \E i, j \in DOMAIN previousWeekItems :
          /\ i < j
          /\ previousWeekItems[i].quantity > previousWeekItems[j].quantity

\* C15: two calls of the latest-week aggregation on the same history return
\* identical output (list_history does not change between the calls here)
C15_SameOutputTwice ==
    \A a, b \in DOMAIN previousWeekCalls :
        previousWeekCalls[a] = previousWeekCalls[b]

---------------------------------------------------------------------------
(* Properties of the frequent-items query *)

\* the group of a text: trimmed, then case-folded
GroupKey(text) == toLowerCase(trim(text))

GroupKeys == {GroupKey(MyHistory[j].text) : j \in DOMAIN MyHistory}

GroupMembers(key) == {j \in DOMAIN MyHistory : GroupKey(MyHistory[j].text) = key}

GroupSize(key) == Cardinality(GroupMembers(key))

FirstMember(key) ==
    CHOOSE j \in GroupMembers(key) : \A k \in GroupMembers(key) : j <= k

\* C4: over all history entries of the list, two entries are counted in the
\* same group exactly when their trimmed, case-folded texts are equal, and
\* the count of a group is the number of its entries
C4_GroupCounts ==
    FrequentFetched =>
        /\ Len(counts) = Cardinality(GroupKeys)
        /\ \A key \in GroupKeys :
              /\ HasOwn(counts, key)
              /\ GetOwn(counts, key) = Num(GroupSize(key))

\* C5: no returned text belongs to a group with fewer than 2 entries; an
\* empty history, or one whose groups all have one entry, gives the empty list
C5_NoInfrequentText ==
    FrequentFetched =>
        /\ \A i \in DOMAIN frequentItems : GroupSize(GroupKey(frequentItems[i])) >= 2
        /\ (\A key \in GroupKeys : GroupSize(key) < 2) => frequentItems = <<>>

C5_Witness ==
    /\ FrequentFetched
    /\ Cardinality(GroupKeys) >= 2
    /\ \A key \in GroupKeys : GroupSize(key) = 1
    /\ frequentItems = <<>>

\* C6: the result is in descending order of group count, and texts with
\* equal counts are in the order of their first occurrence in the history
C6_CountDescendingStable ==
    FrequentFetched =>
        \A i, j \in DOMAIN frequentItems :
            i < j =>
                LET ki == GroupKey(frequentItems[i])
                    kj == GroupKey(frequentItems[j])
                IN  \/ GroupSize(ki) > GroupSize(kj)
                    \/ /\ GroupSize(ki) = GroupSize(kj)
                       /\ FirstMember(ki) < FirstMember(kj)

\* C8: each returned text is the trimmed, original-cased text of the first
\* history entry of its group
C8_FirstCasingShown ==
    FrequentFetched =>
        \A i \in DOMAIN frequentItems :
            /\ GroupKey(frequentItems[i]) \in GroupKeys
            /\ frequentItems[i] =
                  trim(MyHistory[FirstMember(GroupKey(frequentItems[i]))].text)

C8_Witness ==
    /\ FrequentFetched
    /\ \E i \in DOMAIN frequentItems :
          \E j \in GroupMembers(GroupKey(frequentItems[i])) :
              trim(MyHistory[j].text) # frequentItems[i]

---------------------------------------------------------------------------
(* Specification of the frequent-items query over histories of many groups *)

MaxDropped == 1
MaxThrice  == 1

ManyTexts == <<T_Milk, T_Bread, T_Eggs, T_Apples, T_Rice, T_Tea, T_Jam,
               T_Oats, T_12, T_7>>

Reverse(s) == [i \in 1..Len(s) |-> s[Len(s) + 1 - i]]

\* every text once, then the texts of `twice` again, then those of `thrice`
Rounds(order, twice, thrice) ==
    LET texts == order \o SelectSeq2(order, twice) \o SelectSeq2(order, thrice)
    IN  [i \in 1..Len(texts) |-> HistoryRow(i, TheList, texts[i], (i % 2) + 1)]

ManyHistories ==
    UNION {
        {Rounds(order, twice, thrice) :
            order \in {ManyTexts, Reverse(ManyTexts)},
            thrice \in {S \in SUBSET twice : Cardinality(S) <= MaxThrice}}
        : twice \in {S \in SUBSET Range(ManyTexts) :
                        Cardinality(Range(ManyTexts) \ S) <= MaxDropped}}

InitFrequentMany ==
    /\ collation = "C"
    /\ lists = OneGroceryList
    /\ list_items = <<>>
    /\ list_history \in ManyHistories
    /\ notes = <<>>
    /\ events = <<>>
    /\ tasks = <<>>
    /\ NoQueryState
    /\ NoSearchState
    /\ NoRaceState
    /\ NoGroceryState
    /\ NoViewState
    /\ NoPasswordState
    /\ NoExtraState

NextFrequentMany == FrequentQuery

SpecFrequentMany == InitFrequentMany /\ [][NextFrequentMany]_vars

\* the groups with at least 2 entries, by descending size and, for equal
\* sizes, by first appearance in the history
RECURSIVE RankGroups(_)
RankGroups(keys) ==
    IF keys = {} THEN <<>>
    ELSE LET best == CHOOSE k \in keys :
                        \A o \in keys :
                            \/ GroupSize(k) > GroupSize(o)
                            \/ /\ GroupSize(k) = GroupSize(o)
                               /\ FirstMember(k) <= FirstMember(o)
         IN  <<best>> \o RankGroups(keys \ {best})

FrequentGroups == {k \in GroupKeys : GroupSize(k) >= 2}

ExpectedRanking ==
    LET ranked == RankGroups(FrequentGroups)
    IN  [i \in 1..Len(ranked) |-> trim(MyHistory[FirstMember(ranked[i])].text)]

\* C7: at most 8 texts are returned, and when more than 8 groups have count
\* >= 2 they are exactly the first 8 of the count-descending,
\* first-appearance-tie-broken order
C7_FirstEightOfRanking ==
    FrequentFetched =>
        /\ Len(frequentItems) <= 8
        /\ Cardinality(FrequentGroups) > 8 =>
              frequentItems = SubSeq(ExpectedRanking, 1, 8)

---------------------------------------------------------------------------
(* Search component *)

OtherHousehold == 2
SearchLimit    == 5
NoteTitleLimit == 50

\* text ILIKE pattern: case-insensitive, % matches any run of characters and
\* _ any single character
RECURSIVE LikeMatch(_, _)
LikeMatch(s, p) ==
    IF p = <<>> THEN s = <<>>
    ELSE IF Head(p) = 37
         THEN LikeMatch(s, Tail(p)) \/ (s # <<>> /\ LikeMatch(Tail(s), p))
         ELSE /\ s # <<>>
              /\ (Head(p) = 95 \/ Head(p) = Head(s))
              /\ LikeMatch(Tail(s), Tail(p))

\* .ilike(column, `%${searchTerm}%`)
ILikeTerm(text, term) ==
    LikeMatch(toLowerCase(text), <<37>> \o toLowerCase(term) \o <<37>>)

\* .limit(n) on a select without ORDER BY: the first n rows in physical order
Limit(rows, n) == SubSeq(rows, 1, IF Len(rows) < n THEN Len(rows) ELSE n)

\* the lists lookup: household_id = householdId, type = 'grocery', limit 1
GroceryLists(hh) == Limit(SelectSeq2(lists, {l \in Range(lists) : l.household_id = hh}), 1)

GroceryMatches(hh, term) ==
    IF GroceryLists(hh) = <<>> THEN <<>>
    ELSE LET rows == Limit(SelectSeq2(list_items,
                               {r \in Range(list_items) :
                                   /\ r.list_id = GroceryLists(hh)[1].id
                                   /\ ILikeTerm(r.text, term)}), SearchLimit)
         IN  [i \in 1..Len(rows) |->
                 [id |-> rows[i].id, type |-> "grocery", title |-> rows[i].text]]

\* note.content.substring(0, 50) + (note.content.length > 50 ? '...' : '')
NoteTitleEllipsisAtLimit(content) ==
    SubSeq(content, 1, IF Len(content) < NoteTitleLimit THEN Len(content) ELSE NoteTitleLimit)
        \o (IF Len(content) >= NoteTitleLimit THEN <<46, 46, 46>> ELSE <<>>)
NoteTitle(content) ==
    SubSeq(content, 1, IF Len(content) < NoteTitleLimit THEN Len(content) ELSE NoteTitleLimit)
        \o (IF Len(content) > NoteTitleLimit THEN <<46, 46, 46>> ELSE <<>>)

NoteMatches(hh, term) ==
    LET rows == Limit(SelectSeq2(notes,
                          {r \in Range(notes) :
                              r.household_id = hh /\ ILikeTerm(r.content, term)}), SearchLimit)
    IN  [i \in 1..Len(rows) |->
            [id |-> rows[i].id, type |-> "note", title |-> NoteTitle(rows[i].content)]]

EventMatches(hh, term) ==
    LET rows == Limit(SelectSeq2(events,
                          {r \in Range(events) :
                              r.household_id = hh /\ ILikeTerm(r.title, term)}), SearchLimit)
    IN  [i \in 1..Len(rows) |->
            [id |-> rows[i].id, type |-> "event", title |-> rows[i].title]]

TaskMatches(hh, term) ==
    LET rows == Limit(SelectSeq2(tasks,
                          {r \in Range(tasks) :
                              r.household_id = hh /\ ILikeTerm(r.title, term)}), SearchLimit)
    IN  [i \in 1..Len(rows) |->
            [id |-> rows[i].id, type |-> "task", title |-> rows[i].title]]

\* allResults after the four pushes
AllResults(hh, term) ==
    GroceryMatches(hh, term) \o NoteMatches(hh, term) \o EventMatches(hh, term)
        \o TaskMatches(hh, term)

\* the four fetches of one execution of the queryFn; a fetch that fails
\* resolves to { data: null, error } and the queryFn never reads error
SearchFetches == {"lists", "list_items", "notes", "events", "tasks"}

\* allResults when the fetches in `failed` fail: `if (lists && ...)`,
\* `if (groceryItems)`, `if (notes)`, `if (events)`, `if (tasks)` skip the push
AllResultsAborting(hh, term, failed) ==
    IF failed # {} THEN <<>> ELSE AllResults(hh, term)
AllResultsWith(hh, term, failed) ==
    (IF "lists" \in failed \/ "list_items" \in failed
        THEN <<>> ELSE GroceryMatches(hh, term))
    \o (IF "notes" \in failed THEN <<>> ELSE NoteMatches(hh, term))
    \o (IF "events" \in failed THEN <<>> ELSE EventMatches(hh, term))
    \o (IF "tasks" \in failed THEN <<>> ELSE TaskMatches(hh, term))

\* if (!searchTerm || searchTerm.length < 2) return []
QueryFnReturnsEarly(term) == term = <<>> \/ Len(term) < 2

\* enabled: searchTerm.length >= 2
SearchEnabled(term) == Len(term) >= 2

NoData == [has |-> FALSE, data |-> <<>>]

\* queryKey: ['search', householdId, searchTerm]
QueryKeyWithoutTerm(hh, term) == <<"search", hh, <<>> >>
QueryKey(hh, term) == <<"search", hh, term>>

\* the query cache with no data under the keys of the given terms
EmptyCache(terms) == [k \in {QueryKey(TheHousehold, t) : t \in terms} |-> NoData]

\* const { data: results = [] } = useQuery({ queryKey: ['search', householdId, searchTerm] })
ResultsKeepPrevious(cache, term) ==
    IF cache[QueryKey(TheHousehold, term)].has
    THEN cache[QueryKey(TheHousehold, term)].data
    ELSE IF runs # <<>> THEN runs[Len(runs)].results ELSE <<>>
Results(cache, term) ==
    IF cache[QueryKey(TheHousehold, term)].has
    THEN cache[QueryKey(TheHousehold, term)].data
    ELSE <<>>

results == Results(searchCache, searchTerm)

\* the stored data the search reads, as sets of rows (without physical order)
Snapshot ==
    [lists |-> Range(lists), list_items |-> Range(list_items),
     notes |-> Range(notes), events |-> Range(events), tasks |-> Range(tasks)]

MaxSearches == 2

\* onChange of the search input: setSearchTerm(e.target.value)
TypeSearchTerm(term) ==
    /\ searchTerm' = term
    /\ UNCHANGED <<collation, lists, list_items, list_history, notes, events,
                   tasks, previousWeekData, previousWeekItems, historyData, counts, textMap,
                   frequentItems, fetched, searchCache, queried, runs,
                   callVars, raceVars, groceryVars, viewVars, passwordVars, extraVars>>

\* one execution of the search queryFn for the current key, in which the
\* fetches in `failed` fail
RunSearch(failed) ==
    /\ Len(runs) < MaxSearches
    /\ SearchEnabled(searchTerm)
    /\ LET data == IF QueryFnReturnsEarly(searchTerm) THEN <<>>
                   ELSE AllResultsWith(TheHousehold, searchTerm, failed)
       IN  /\ searchCache' = [searchCache EXCEPT ![QueryKey(TheHousehold, searchTerm)] =
                                    [has |-> TRUE, data |-> data]]
           /\ runs' = Append(runs, [term |-> searchTerm, snapshot |-> Snapshot,
                                    failed |-> failed, results |-> data])
    /\ queried' = IF QueryFnReturnsEarly(searchTerm) THEN queried
                  ELSE queried \cup {searchTerm}
    /\ UNCHANGED <<collation, lists, list_items, list_history, notes, events,
                   tasks, previousWeekData, previousWeekItems, historyData, counts, textMap,
                   frequentItems, fetched, searchTerm,
                   callVars, raceVars, groceryVars, viewVars, passwordVars, extraVars>>

\* an execution in which every fetch succeeds
SearchQuery == RunSearch({})

\* an execution in which one of the fetches fails
SearchQueryFailing(fetch) == RunSearch({fetch})

\* handleResultClick: setSearchTerm('')
ResultClick ==
    /\ Len(searchTerm) >= 2
    /\ results # <<>>
    /\ searchTerm' = <<>>
    /\ UNCHANGED <<collation, lists, list_items, list_history, notes, events,
                   tasks, previousWeekData, previousWeekItems, historyData, counts, textMap,
                   frequentItems, fetched, searchCache, queried, runs,
                   callVars, raceVars, groceryVars, viewVars, passwordVars, extraVars>>

\* UPDATE of one row: the store keeps the row in place or writes the new
\* version at the end of the table
UpdatedTables(rows, i, new) ==
    {[j \in DOMAIN rows |-> IF j = i THEN new ELSE rows[j]],
     Append(SelectSeq2(rows, Range(rows) \ {rows[i]}), new)}

\* toggleItemMutation on an item of the list
ToggleItem(i) ==
    /\ i \in DOMAIN list_items
    /\ list_items' \in UpdatedTables(list_items, i,
            [list_items[i] EXCEPT !.is_completed = ~list_items[i].is_completed])
    /\ UNCHANGED <<collation, lists, list_history, notes, events, tasks,
                   previousWeekData, previousWeekItems, historyData, counts, textMap,
                   frequentItems, fetched, searchTerm, searchCache, queried, runs,
                   callVars, raceVars, groceryVars, viewVars, passwordVars, extraVars>>

---------------------------------------------------------------------------
(* Specification of the Search component over a small household *)

SearchTerms == {<<>>, T_m, T_mi, T_spaceM, T_twoSpaces}

ItemRow(i, text) ==
    [id |-> i, list_id |-> TheList, text |-> text, quantity |-> 0, is_completed |-> FALSE]

ItemsFixture == <<ItemRow(1, T_Milk), ItemRow(2, T_OatMilk)>>

NotesFixture ==
    <<[id |-> 1, household_id |-> TheHousehold, content |-> T_similar],
      [id |-> 2, household_id |-> OtherHousehold, content |-> T_milk]>>

EventsFixture == <<[id |-> 1, household_id |-> TheHousehold, title |-> T_MilkRun]>>

TasksFixture == <<[id |-> 1, household_id |-> TheHousehold, title |-> T_BuyMilk]>>

InitSearch ==
    /\ collation = "C"
    /\ lists \in {<<>>, OneGroceryList}
    /\ list_items = IF lists = <<>> THEN <<>> ELSE ItemsFixture
    /\ list_history = <<>>
    /\ notes \in {<<>>, NotesFixture}
    /\ events = EventsFixture
    /\ tasks = TasksFixture
    /\ NoQueryState
    /\ searchTerm = <<>>
    /\ searchCache = EmptyCache(SearchTerms)
    /\ queried = {}
    /\ runs = <<>>
    /\ NoRaceState
    /\ NoGroceryState
    /\ NoViewState
    /\ NoPasswordState
    /\ NoExtraState

NextSearch ==
    \/ \E term \in SearchTerms : TypeSearchTerm(term)
    \/ SearchQuery
    \/ ResultClick
    \/ \E i \in DOMAIN list_items : ToggleItem(i)

SpecSearch == InitSearch /\ [][NextSearch]_vars

---------------------------------------------------------------------------
(* Specification of Search with fetches in flight while the user types     *)

MaxInflight == 2

Remove(seq, i) == [j \in 1..(Len(seq) - 1) |-> IF j < i THEN seq[j] ELSE seq[j + 1]]

\* the observer of the current key starts a fetch: the queryFn closes over
\* the searchTerm of this render; a key that is being fetched is not
\* fetched a second time
SearchStart ==
    /\ Len(inflight) < MaxInflight
    /\ SearchEnabled(searchTerm)
    /\ \A i \in DOMAIN inflight :
          inflight[i].key # QueryKey(TheHousehold, searchTerm)
    /\ inflight' = Append(inflight, [key  |-> QueryKey(TheHousehold, searchTerm),
                                     term |-> searchTerm])
    /\ UNCHANGED <<collation, lists, list_items, list_history, notes, events,
                   tasks, previousWeekData, previousWeekItems, historyData, counts,
                   textMap, frequentItems, fetched, searchTerm, searchCache, queried,
                   runs, superseded, callVars, groceryVars, viewVars, passwordVars, extraVars>>

\* the queryFn of a started fetch resolves: its data is stored under the key
\* the fetch was started for, whatever the search term is by now
SearchSettle(i) ==
    /\ i \in DOMAIN inflight
    /\ LET f    == inflight[i]
           data == IF QueryFnReturnsEarly(f.term) THEN <<>>
                   ELSE AllResults(TheHousehold, f.term)
       IN  /\ searchCache' = [searchCache EXCEPT ![f.key] = [has |-> TRUE, data |-> data]]
           /\ queried' = IF QueryFnReturnsEarly(f.term) THEN queried
                         ELSE queried \cup {f.term}
           /\ superseded' = IF f.term # searchTerm THEN superseded \cup {f.term}
                            ELSE superseded
    /\ inflight' = Remove(inflight, i)
    /\ UNCHANGED <<collation, lists, list_items, list_history, notes, events,
                   tasks, previousWeekData, previousWeekItems, historyData, counts,
                   textMap, frequentItems, fetched, searchTerm, runs,
                   callVars, groceryVars, viewVars, passwordVars, extraVars>>

InitSearchRace == InitSearch

NextSearchRace ==
    \/ \E term \in SearchTerms : TypeSearchTerm(term)
    \/ SearchStart
    \/ \E i \in DOMAIN inflight : SearchSettle(i)
    \/ ResultClick

SpecSearchRace == InitSearchRace /\ [][NextSearchRace]_vars

---------------------------------------------------------------------------
(* Specification of Search over notes of every length around the title     *)
(* limit and more matches than the per-kind limit, with failing fetches    *)

T_mUnderscore == <<109, 95>>

\* a text of n characters that starts with "mi"
Padded(n) == [i \in 1..n |-> IF i = 1 THEN 109 ELSE IF i = 2 THEN 105 ELSE 120]

DataTerms == {<<>>, T_mi, T_mUnderscore}

NoteRow(i, hh, content) == [id |-> i, household_id |-> hh, content |-> content]

NotesMany ==
    <<NoteRow(1, TheHousehold, Padded(NoteTitleLimit)),
      NoteRow(2, TheHousehold, Padded(NoteTitleLimit + 1)),
      NoteRow(3, TheHousehold, T_similar),
      NoteRow(4, OtherHousehold, T_milk),
      NoteRow(5, TheHousehold, Padded(NoteTitleLimit - 1)),
      NoteRow(6, TheHousehold, T_Bread),
      NoteRow(7, TheHousehold, T_OatMilk),
      NoteRow(8, TheHousehold, T_MilkRun),
      NoteRow(9, TheHousehold, T_BuyMilk)>>

InitSearchData ==
    /\ collation = "C"
    /\ lists \in {<<>>, OneGroceryList}
    /\ list_items = IF lists = <<>> THEN <<>> ELSE ItemsFixture
    /\ list_history = <<>>
    /\ notes \in {NotesFixture, NotesMany}
    /\ events = EventsFixture
    /\ tasks = TasksFixture
    /\ NoQueryState
    /\ searchTerm = <<>>
    /\ searchCache = EmptyCache(DataTerms)
    /\ queried = {}
    /\ runs = <<>>
    /\ NoRaceState
    /\ NoGroceryState
    /\ NoViewState
    /\ NoPasswordState
    /\ NoExtraState

NextSearchData ==
    \/ \E term \in DataTerms : TypeSearchTerm(term)
    \/ SearchQuery
    \/ \E fetch \in SearchFetches : SearchQueryFailing(fetch)
    \/ ResultClick

SpecSearchData == InitSearchData /\ [][NextSearchData]_vars

---------------------------------------------------------------------------
(* GroceryList: the item list, its mutations and Start Fresh; Dashboard     *)
(* quick-add                                                               *)

MaxStartFresh == 2

\* the texts typed into the add forms, in the order they are added
NewItemTexts == <<T_Milk, T_spaceM>>
NextTexts == IF nextId <= Len(NewItemTexts) THEN {NewItemTexts[nextId]} ELSE {}

notGroceryVars ==
    <<collation, notes, events, tasks, previousWeekData, previousWeekItems,
      historyData, counts, textMap, frequentItems, fetched, searchTerm,
      searchCache, queried, runs, callVars, raceVars, viewVars, passwordVars, extraVars>>

ItemIds(rows) == {rows[i].id : i \in DOMAIN rows}

\* .order('created_at', { ascending: true }): ids are given in creation order
RECURSIVE OrderByCreatedAt(_)
OrderByCreatedAt(rows) ==
    IF rows = <<>> THEN <<>>
    ELSE LET first == CHOOSE r \in Range(rows) : \A o \in Range(rows) : r.id <= o.id
         IN  <<first>> \o OrderByCreatedAt(SelectSeq2(rows, Range(rows) \ {first}))

\* queryFn of ['list-items', list.id]
ItemsQuery ==
    /\ lastAction' = "itemsQuery"
    /\ lists # <<>>
    /\ items' = OrderByCreatedAt(SelectSeq2(list_items,
                     {r \in Range(list_items) : r.list_id = lists[1].id}))
    /\ UNCHANGED <<lists, list_items, list_history, currentWeek, startFresh, nextId,
                   notGroceryVars>>

\* .insert([{ list_id, text: text.trim(), ... }]) into list_items
InsertItem(listId, text) ==
    Append(list_items, [ItemRow(nextId, text) EXCEPT !.list_id = listId])

\* addItemMutation
AddItem(text) ==
    /\ lastAction' = "addItem"
    /\ lists # <<>>
    /\ trim(text) # <<>>
    /\ list_items' = InsertItem(lists[1].id, trim(text))
    /\ nextId' = nextId + 1
    /\ UNCHANGED <<lists, list_history, items, currentWeek, startFresh, notGroceryVars>>

\* Dashboard addGroceryMutation: get or create the grocery list, insert the
\* item (the modal's Add Item button is disabled while the trimmed text is empty)
QuickAdd(text) ==
    /\ lastAction' = "addGrocery"
    /\ trim(text) # <<>>
    /\ lists' = IF GroceryLists(TheHousehold) = <<>>
                THEN Append(lists, [id |-> TheList, household_id |-> TheHousehold])
                ELSE lists
    /\ list_items' = InsertItem(lists'[1].id, trim(text))
    /\ nextId' = nextId + 1
    /\ UNCHANGED <<list_history, items, currentWeek, startFresh, notGroceryVars>>

\* toggleItemMutation on a shown (cached) item:
\* .update({ is_completed: !item.is_completed }).eq('id', item.id)
ToggleShownItem(k) ==
    /\ lastAction' = "toggleItem"
    /\ k \in DOMAIN items
    /\ IF items[k].id \in ItemIds(list_items)
       THEN \E i \in DOMAIN list_items :
               /\ list_items[i].id = items[k].id
               /\ list_items' \in UpdatedTables(list_items, i,
                      [list_items[i] EXCEPT !.is_completed = ~items[k].is_completed])
       ELSE list_items' = list_items
    /\ UNCHANGED <<lists, list_history, items, currentWeek, startFresh, nextId,
                   notGroceryVars>>

\* .delete().in('id', ids) / .delete().eq('id', itemId)
DeleteIds(rows, ids) == SelectSeq2(rows, {r \in Range(rows) : r.id \notin ids})

\* deleteItemMutation on a shown (cached) item
DeleteItem(k) ==
    /\ lastAction' = "deleteItem"
    /\ k \in DOMAIN items
    /\ list_items' = DeleteIds(list_items, {items[k].id})
    /\ UNCHANGED <<lists, list_history, items, currentWeek, startFresh, nextId,
                   notGroceryVars>>

\* items.filter((item) => item.is_completed): the completed items of the
\* cached rows
CompletedItemsOfStore(shown) ==
    SelectSeq2(shown, {r \in Range(shown) :
                          \E t \in Range(list_items) : t.id = r.id /\ t.is_completed})
CompletedItems(shown) == SelectSeq2(shown, {r \in Range(shown) : r.is_completed})

\* clearCompletedMutation
ClearCompleted ==
    /\ lastAction' = "clearCompleted"
    /\ lists # <<>>
    /\ list_items' = DeleteIds(list_items, ItemIds(CompletedItems(items)))
    /\ UNCHANGED <<lists, list_history, items, currentWeek, startFresh, nextId,
                   notGroceryVars>>

\* historyItems: one row per completed item, tagged with the week's start
HistoryItems(completed, listId, week) ==
    [i \in DOMAIN completed |->
        [list_id |-> listId, text |-> completed[i].text,
         quantity |-> completed[i].quantity, week_start |-> week]]

\* .from('list_history').insert(historyItems)
InsertHistoryReplacingWeek(history, rows) ==
    SelectSeq2(history, {h \in Range(history) :
                            \A i \in DOMAIN rows : h.week_start # rows[i].week_start})
        \o rows
InsertHistory(history, rows) == history \o rows

StartFreshOutcomes == {"success", "historyError", "deleteError"}

\* the delete of the completed ids is reached only after the history insert
\* has succeeded: if (historyError) throw historyError
ItemsAfterStartFreshDeletingFirst(outcome, ids) ==
    IF outcome # "deleteError" THEN DeleteIds(list_items, ids) ELSE list_items
ItemsAfterStartFresh(outcome, ids) ==
    IF outcome = "success" THEN DeleteIds(list_items, ids) ELSE list_items

\* startFreshMutation
StartFresh(outcome) ==
    /\ lastAction' = "startFresh"
    /\ lists # <<>>
    /\ Len(startFresh) < MaxStartFresh
    /\ LET completedItems == CompletedItems(items)
           historyItems   == HistoryItems(completedItems, lists[1].id, currentWeek)
       IN  IF completedItems = <<>>
           THEN /\ outcome = "success"
                /\ UNCHANGED <<list_history, list_items, startFresh>>
           ELSE /\ list_history' = IF outcome = "historyError" THEN list_history
                                   ELSE InsertHistory(list_history, historyItems)
                /\ list_items' = ItemsAfterStartFresh(outcome, ItemIds(completedItems))
                /\ startFresh' = Append(startFresh, outcome)
    /\ UNCHANGED <<lists, items, currentWeek, nextId, notGroceryVars>>

\* the next week begins (new Date() in startFreshMutation)
WeekPasses ==
    /\ lastAction' = "weekPasses"
    /\ currentWeek < MaxWeek
    /\ currentWeek' = currentWeek + 1
    /\ UNCHANGED <<lists, list_items, list_history, items, startFresh, nextId,
                   notGroceryVars>>

InitGrocery ==
    /\ collation = "C"
    /\ lists \in {<<>>, OneGroceryList}
    /\ list_items = <<>>
    /\ list_history = <<>>
    /\ notes = <<>>
    /\ events = <<>>
    /\ tasks = <<>>
    /\ NoQueryState
    /\ NoSearchState
    /\ NoRaceState
    /\ NoGroceryState
    /\ NoViewState
    /\ NoPasswordState
    /\ NoExtraState

NextGrocery ==
    \/ ItemsQuery
    \/ \E text \in NextTexts : AddItem(text)
    \/ \E text \in NextTexts : QuickAdd(text)
    \/ \E k \in DOMAIN items : ToggleShownItem(k)
    \/ \E k \in DOMAIN items : DeleteItem(k)
    \/ ClearCompleted
    \/ \E outcome \in StartFreshOutcomes : StartFresh(outcome)
    \/ WeekPasses

SpecGrocery == InitGrocery /\ [][NextGrocery]_vars

---------------------------------------------------------------------------
(* The views' cached queries and mutations: which collections a query      *)
(* reads, which a mutation writes, what its onSuccess invalidates and       *)
(* whether it has an onError handler                                       *)

MaxMutations == 2

TheMonth == 10      \* currentMonth.getMonth() of the Calendar

\* a cached query: its key and the tables its queryFn selects from
Query(key, reads) == [key |-> key, reads |-> reads]

GroceryListQueries ==
    {Query(<<"grocery-list", TheHousehold>>, {"lists"}),
     Query(<<"list-items", TheList>>, {"list_items"}),
     Query(<<"previous-week-items", TheList>>, {"list_history"}),
     Query(<<"frequent-items", TheList>>, {"list_history"})}

DashboardQueries ==
    {Query(<<"dashboard-events", TheHousehold>>, {"events"}),
     Query(<<"dashboard-tasks", TheHousehold>>, {"tasks"}),
     Query(<<"dashboard-notes", TheHousehold>>, {"notes"}),
     Query(<<"dashboard-grocery", TheHousehold>>, {"lists", "list_items"}),
     Query(<<"dashboard-task-stats", TheHousehold>>, {"tasks"})}

TasksQueries == {Query(<<"tasks", TheHousehold>>, {"tasks"})}

QuickNotesQueries == {Query(<<"notes", TheHousehold>>, {"notes"})}

CalendarQueries == {Query(<<"events", TheHousehold, TheMonth>>, {"events"})}

SearchQueries ==
    {Query(QueryKey(TheHousehold, T_mi),
           {"lists", "list_items", "notes", "events", "tasks"})}

SettingsQueries == {Query(<<"household-members", TheHousehold>>, {"household_members"})}

Queries ==
    GroceryListQueries \cup DashboardQueries \cup TasksQueries \cup QuickNotesQueries
        \cup CalendarQueries \cup SearchQueries \cup SettingsQueries

QueryKeys == {q.key : q \in Queries}

Reads(key) == (CHOOSE q \in Queries : q.key = key).reads

\* a useMutation hook: the tables its mutationFn writes, the keys its
\* onSuccess invalidates, and whether it has an onError handler
Mutation(writes, invalidates, onError) ==
    [writes |-> writes, invalidates |-> invalidates, onError |-> onError]

GroceryListMutations ==
    [GroceryList_addItem        |-> Mutation({"list_items"}, {<<"list-items", TheList>>}, FALSE),
     GroceryList_toggleItem     |-> Mutation({"list_items"}, {<<"list-items", TheList>>}, FALSE),
     GroceryList_deleteItem     |-> Mutation({"list_items"}, {<<"list-items", TheList>>}, FALSE),
     GroceryList_clearCompleted |-> Mutation({"list_items"}, {<<"list-items", TheList>>}, FALSE),
     GroceryList_startFresh     |-> Mutation({"list_items", "list_history"},
                                        {<<"list-items", TheList>>,
                                         <<"previous-week-items", TheList>>,
                                         <<"frequent-items", TheList>>}, FALSE)]

DashboardMutations ==
    [Dashboard_addGrocery |-> Mutation({"lists", "list_items"}, {<<"dashboard-grocery">>}, FALSE),
     Dashboard_addTask    |-> Mutation({"tasks"},
                                  {<<"dashboard-tasks">>, <<"dashboard-task-stats">>}, FALSE),
     Dashboard_addEvent   |-> Mutation({"events"}, {<<"dashboard-events">>}, FALSE)]

TasksMutations ==
    [Tasks_addTask          |-> Mutation({"tasks"}, {<<"tasks", TheHousehold>>}, FALSE),
     Tasks_updateTaskStatus |-> Mutation({"tasks"}, {<<"tasks", TheHousehold>>}, FALSE),
     Tasks_deleteTask       |-> Mutation({"tasks"}, {<<"tasks", TheHousehold>>}, FALSE)]

CalendarMutations ==
    [Calendar_addEvent    |-> Mutation({"events"}, {<<"events", TheHousehold>>}, FALSE),
     Calendar_deleteEvent |-> Mutation({"events"}, {<<"events", TheHousehold>>}, FALSE)]

QuickNotesMutations ==
    [QuickNotes_addNote    |-> Mutation({"notes"}, {<<"notes", TheHousehold>>}, FALSE),
     QuickNotes_deleteNote |-> Mutation({"notes"}, {<<"notes", TheHousehold>>}, FALSE)]

SettingsMutations ==
    [Settings_addMember    |-> Mutation({"household_members"},
                                   {<<"household-members", TheHousehold>>}, TRUE),
     Settings_removeMember |-> Mutation({"household_members"},
                                   {<<"household-members", TheHousehold>>}, TRUE)]

Mutations ==
    GroceryListMutations @@ DashboardMutations @@ TasksMutations @@ CalendarMutations
        @@ QuickNotesMutations @@ SettingsMutations

MutationNames == DOMAIN Mutations

\* invalidateQueries({ queryKey }): a query matches when the given key is a
\* prefix of its key
MatchesQueryKey(given, key) ==
    Len(given) <= Len(key) /\ SubSeq(key, 1, Len(given)) = given

FreshQuery == [invalidated |-> FALSE, outdated |-> FALSE]

\* queryClient.invalidateQueries for every key of onSuccess; `outdated`
\* records that a table the query reads was written after its last fetch
AfterSuccess(state, m) ==
    [key \in DOMAIN state |->
        [invalidated |-> \/ state[key].invalidated
                         \/ \E given \in m.invalidates : MatchesQueryKey(given, key),
         outdated    |-> \/ state[key].outdated
                         \/ Reads(key) \cap m.writes # {}]]

NoBanner == [type |-> "none", of |-> "none"]

\* a mutation of a view settles: onSuccess invalidates its keys (Settings
\* also shows a success message); onError, where there is one, shows the
\* error message; addMemberMutation clears the message when it starts
Mutate(name, ok) ==
    /\ Len(mutationLog) < MaxMutations
    /\ mutationLog' = Append(mutationLog, [name |-> name, ok |-> ok])
    /\ queryState' = IF ok THEN AfterSuccess(queryState, Mutations[name]) ELSE queryState
    /\ banner' = IF Mutations[name].onError
                 THEN [type |-> IF ok THEN "success" ELSE "error", of |-> name]
                 ELSE banner
    /\ UNCHANGED <<collation, lists, list_items, list_history, notes, events,
                   tasks, previousWeekData, previousWeekItems, historyData, counts,
                   textMap, frequentItems, fetched, searchTerm, searchCache, queried,
                   runs, callVars, raceVars, groceryVars, passwordVars, extraVars>>

\* an invalidated or remounted query fetches again
Refetch(key) ==
    /\ queryState[key] # FreshQuery
    /\ queryState' = [queryState EXCEPT ![key] = FreshQuery]
    /\ UNCHANGED <<collation, lists, list_items, list_history, notes, events,
                   tasks, previousWeekData, previousWeekItems, historyData, counts,
                   textMap, frequentItems, fetched, searchTerm, searchCache, queried,
                   runs, mutationLog, banner, callVars, raceVars, groceryVars,
                   passwordVars, extraVars>>

InitViews ==
    /\ collation = "C"
    /\ lists = OneGroceryList
    /\ list_items = <<>>
    /\ list_history = <<>>
    /\ notes = <<>>
    /\ events = <<>>
    /\ tasks = <<>>
    /\ NoQueryState
    /\ NoSearchState
    /\ NoRaceState
    /\ NoGroceryState
    /\ queryState = [key \in QueryKeys |-> FreshQuery]
    /\ mutationLog = <<>>
    /\ banner = NoBanner
    /\ NoPasswordState
    /\ NoExtraState

NextViews ==
    \/ \E name \in MutationNames, ok \in BOOLEAN : Mutate(name, ok)
    \/ \E key \in QueryKeys : Refetch(key)

SpecViews == InitViews /\ [][NextViews]_vars

---------------------------------------------------------------------------
(* Settings: the change-password form *)

MaxSubmits == 2

MinPasswordLength == 6

notPasswordVars ==
    <<collation, lists, list_items, list_history, notes, events, tasks,
      previousWeekData, previousWeekItems, historyData, counts, textMap,
      frequentItems, fetched, searchTerm, searchCache, queried, runs,
      callVars, raceVars, groceryVars, viewVars, extraVars>>

NoMessage == [type |-> "none", text |-> ""]
ErrorMessage(text) == [type |-> "error", text |-> text]
SuccessMessage(text) == [type |-> "success", text |-> text]

\* onChange of the New Password field
SetNewPassword(p) ==
    /\ newPassword' = p
    /\ UNCHANGED <<confirmPassword, passwordMessage, updateUserCalls, submits,
                   notPasswordVars>>

\* onChange of the Confirm Password field
SetConfirmPassword(p) ==
    /\ confirmPassword' = p
    /\ UNCHANGED <<newPassword, passwordMessage, updateUserCalls, submits,
                   notPasswordVars>>

\* if (newPassword.length < 6)
PasswordTooShortBelowFive(p) == Len(p) < MinPasswordLength - 1
PasswordTooShort(p) == Len(p) < MinPasswordLength

\* changePasswordMutation, started by the form's submit (the Update button
\* is disabled while a field is empty); `remoteOk` is the outcome of
\* supabase.auth.updateUser when it is called
ChangePassword(remoteOk) ==
    /\ submits < MaxSubmits
    /\ newPassword # <<>>
    /\ confirmPassword # <<>>
    /\ submits' = submits + 1
    /\ IF PasswordTooShort(newPassword)
       THEN /\ passwordMessage' = ErrorMessage("Password must be at least 6 characters")
            /\ UNCHANGED <<newPassword, confirmPassword, updateUserCalls>>
       ELSE IF newPassword # confirmPassword
       THEN /\ passwordMessage' = ErrorMessage("Passwords do not match")
            /\ UNCHANGED <<newPassword, confirmPassword, updateUserCalls>>
       ELSE /\ updateUserCalls' = Append(updateUserCalls, newPassword)
            /\ IF remoteOk
               THEN /\ passwordMessage' = SuccessMessage("Password updated successfully!")
                    /\ newPassword' = <<>>
                    /\ confirmPassword' = <<>>
               ELSE /\ passwordMessage' = ErrorMessage("error.message")
                    /\ UNCHANGED <<newPassword, confirmPassword>>
    /\ UNCHANGED notPasswordVars

\* the Cancel button of the form
CancelPasswordChange ==
    /\ newPassword' = <<>>
    /\ confirmPassword' = <<>>
    /\ passwordMessage' = NoMessage
    /\ UNCHANGED <<updateUserCalls, submits, notPasswordVars>>

\* passwords of 5, 6 and 7 characters ("aaaaa", "aaaaaa", "bbbbbb", "aaaaaab")
Passwords ==
    {<<>>,
     [i \in 1..(MinPasswordLength - 1) |-> 97],
     [i \in 1..MinPasswordLength |-> 97],
     [i \in 1..MinPasswordLength |-> 98],
     [i \in 1..(MinPasswordLength + 1) |-> IF i <= MinPasswordLength THEN 97 ELSE 98]}

InitPassword ==
    /\ collation = "C"
    /\ lists = OneGroceryList
    /\ list_items = <<>>
    /\ list_history = <<>>
    /\ notes = <<>>
    /\ events = <<>>
    /\ tasks = <<>>
    /\ NoQueryState
    /\ NoSearchState
    /\ NoRaceState
    /\ NoGroceryState
    /\ NoViewState
    /\ NoPasswordState
    /\ NoExtraState

NextPassword ==
    \/ \E p \in Passwords : SetNewPassword(p)
    \/ \E p \in Passwords : SetConfirmPassword(p)
    \/ \E remoteOk \in BOOLEAN : ChangePassword(remoteOk)
    \/ CancelPasswordChange

SpecPassword == InitPassword /\ [][NextPassword]_vars

---------------------------------------------------------------------------
(* QuickNotes and the Dashboard's recent notes *)

MaxNotes == 2

RecentNotesLimit == 3

notNotesVars ==
    <<collation, lists, list_items, list_history, events, tasks,
      previousWeekData, previousWeekItems, historyData, counts, textMap,
      frequentItems, fetched, searchTerm, searchCache, queried, runs,
      callVars, raceVars, groceryVars, viewVars, passwordVars, clockVars,
      listRaceVars, formVars, memberVars, calendarVars>>

\* .from('notes').insert([{ household_id, content, created_by, is_private }])
InsertNote(creator, content, isPrivate) ==
    /\ nextNoteId <= MaxNotes
    /\ notes' = Append(notes, [id |-> nextNoteId, household_id |-> TheHousehold,
                               content |-> content, created_by |-> creator,
                               is_private |-> isPrivate])
    /\ nextNoteId' = nextNoteId + 1

\* addNoteMutation of this client (the Add Note button is disabled while the
\* trimmed content is empty)
AddNote(content, isPrivate) ==
    /\ trim(content) # <<>>
    /\ InsertNote(userId, trim(content), isPrivate)
    /\ UNCHANGED <<userId, notesData, recentNotes, notNotesVars>>

\* addNoteMutation run by another member of the household on their client
OtherMemberAddsNote(content, isPrivate) ==
    /\ trim(content) # <<>>
    /\ InsertNote(OtherUser, trim(content), isPrivate)
    /\ UNCHANGED <<userId, notesData, recentNotes, notNotesVars>>

\* .eq('household_id', householdId).order('created_at', { ascending: false })
NotesOfHousehold(hh) ==
    Reverse(SelectSeq2(notes, {n \in Range(notes) : n.household_id = hh}))

\* the QuickNotes query ['notes', householdId]: select('*')
NotesQuery ==
    /\ notesData' = NotesOfHousehold(TheHousehold)
    /\ UNCHANGED <<userId, recentNotes, nextNoteId, notes, notNotesVars>>

\* select('id, content, created_at, is_private')
RecentColumns(rows) ==
    [i \in 1..Len(rows) |->
        [id |-> rows[i].id, content |-> rows[i].content, is_private |-> rows[i].is_private]]

\* the Dashboard query ['dashboard-notes', householdId]
RecentNotesQuery ==
    /\ recentNotes' = RecentColumns(Limit(NotesOfHousehold(TheHousehold), RecentNotesLimit))
    /\ UNCHANGED <<userId, notesData, nextNoteId, notes, notNotesVars>>

\* deleteNoteMutation: the delete button is rendered for the user's own
\* notes of the fetched list
DeleteNote(k) ==
    /\ k \in DOMAIN notesData
    /\ notesData[k].created_by = userId
    /\ notes' = SelectSeq2(notes, {n \in Range(notes) : n.id # notesData[k].id})
    /\ UNCHANGED <<userId, notesData, recentNotes, nextNoteId, notNotesVars>>

NoteContents == {T_milkSpaced, T_twoSpaces}

NoteTerms == {<<>>, T_mi}

InitNotes ==
    /\ collation = "C"
    /\ lists = OneGroceryList
    /\ list_items = <<>>
    /\ list_history = <<>>
    /\ notes = <<>>
    /\ events = <<>>
    /\ tasks = <<>>
    /\ NoQueryState
    /\ searchTerm = <<>>
    /\ searchCache = EmptyCache(NoteTerms)
    /\ queried = {}
    /\ runs = <<>>
    /\ NoRaceState
    /\ NoGroceryState
    /\ NoViewState
    /\ NoPasswordState
    /\ NoExtraState

NextNotes ==
    \/ \E c \in NoteContents, isPrivate \in BOOLEAN : AddNote(c, isPrivate)
    \/ \E c \in NoteContents, isPrivate \in BOOLEAN : OtherMemberAddsNote(c, isPrivate)
    \/ NotesQuery
    \/ RecentNotesQuery
    \/ \E k \in 1..MaxNotes : DeleteNote(k)
    \/ \E t \in NoteTerms : TypeSearchTerm(t)
    \/ SearchQuery

SpecNotes == InitNotes /\ [][NextNotes]_vars

---------------------------------------------------------------------------
(* Start Fresh: the week_start date.  Instants are hours since a Sunday    *)
(* 00:00 UTC, dates are days since that Sunday, so that day d is a Sunday  *)
(* exactly when d % 7 = 0.                                                 *)

MaxHours == 168

notClockVars ==
    <<collation, lists, list_items, list_history, notes, events, tasks,
      previousWeekData, previousWeekItems, historyData, counts, textMap,
      frequentItems, fetched, searchTerm, searchCache, queried, runs,
      callVars, raceVars, groceryVars, viewVars, passwordVars, notesVars,
      listRaceVars, formVars, memberVars, calendarVars>>

\* the local calendar date of an instant: today.getDate() and its month, year
LocalDate(instant, offset) == (instant + offset) \div 24

\* today.getDay(): 0 is Sunday
GetDay(instant, offset) == LocalDate(instant, offset) % 7

\* weekStart.setDate(today.getDate() - dayOfWeek); weekStart.setHours(0, 0, 0, 0):
\* the instant of local midnight of that date
WeekStartInstant(instant, offset) ==
    (LocalDate(instant, offset) - GetDay(instant, offset)) * 24 - offset

\* toISOString().split('T')[0]: the UTC calendar date of an instant
ISODate(instant) == instant \div 24

\* week_start of the history rows
WeekStart(instant, offset) == ISODate(WeekStartInstant(instant, offset))

\* the weekStart computation of startFreshMutation
ComputeWeekStart ==
    /\ weekStartCall' = [made |-> TRUE, today |-> today, utcOffset |-> utcOffset,
                         week_start |-> WeekStart(today, utcOffset)]
    /\ UNCHANGED <<today, utcOffset, notClockVars>>

\* an hour passes
ClockTicks ==
    /\ today < 7 * 24 + MaxHours
    /\ today' = today + 1
    /\ UNCHANGED <<utcOffset, weekStartCall, notClockVars>>

\* UTC offsets of clients, in hours
UtcOffsets == {0 - 12, 0 - 5, 0, 1, 2, 14}

InitWeekStart ==
    /\ collation = "C"
    /\ lists = OneGroceryList
    /\ list_items = <<>>
    /\ list_history = <<>>
    /\ notes = <<>>
    /\ events = <<>>
    /\ tasks = <<>>
    /\ NoQueryState
    /\ NoSearchState
    /\ NoRaceState
    /\ NoGroceryState
    /\ NoViewState
    /\ NoPasswordState
    /\ NoNotesState
    /\ NoClients
    /\ NoFormState
    /\ NoMemberState
    /\ NoCalendarState
    /\ today = 7 * 24
    /\ utcOffset \in UtcOffsets
    /\ weekStartCall = NoCall

NextWeekStart ==
    \/ ComputeWeekStart
    \/ ClockTicks

SpecWeekStart == InitWeekStart /\ [][NextWeekStart]_vars

---------------------------------------------------------------------------
(* Get-or-create of the grocery list by several clients: the Grocery tab's *)
(* ['grocery-list'] query and the Dashboard's addGroceryMutation, each a   *)
(* select followed, after the response, by an insert                       *)

MaxClients == 3

Clients == 1..MaxClients

notListRaceVars ==
    <<collation, list_history, notes, events, tasks,
      previousWeekData, previousWeekItems, historyData, counts, textMap,
      frequentItems, fetched, searchTerm, searchCache, queried, runs,
      callVars, raceVars, groceryVars, viewVars, passwordVars, notesVars, clockVars,
      formVars, memberVars, calendarVars>>

Idle == [pc |-> "idle", path |-> "none", listId |-> 0]

\* the select of the household's grocery list; `failed`: the request fails
\* and `data` is null (neither caller looks at the select's error)
LookupList(c, path, failed) ==
    /\ clients[c].pc = "idle"
    /\ LET found == IF failed THEN <<>> ELSE GroceryLists(TheHousehold)
       IN  clients' = [clients EXCEPT ![c] =
                          [pc |-> IF found = <<>> THEN "create"
                                  ELSE IF path = "addGrocery" THEN "insertItem" ELSE "done",
                           path |-> path,
                           listId |-> IF found = <<>> THEN 0 ELSE found[1].id]]
    /\ UNCHANGED <<lists, list_items, notListRaceVars>>

\* .from('lists').insert([{ household_id, name: 'Grocery List', type: 'grocery' }])
CreateList(c) ==
    /\ clients[c].pc = "create"
    /\ lists' = Append(lists, [id |-> Len(lists) + 1, household_id |-> TheHousehold])
    /\ clients' = [clients EXCEPT ![c].listId = Len(lists) + 1,
                                  ![c].pc = IF clients[c].path = "addGrocery"
                                            THEN "insertItem" ELSE "done"]
    /\ UNCHANGED <<list_items, notListRaceVars>>

\* addGroceryMutation: .from('list_items').insert([{ list_id: listId, ... }])
InsertQuickItem(c) ==
    /\ clients[c].pc = "insertItem"
    /\ list_items' = Append(list_items,
                         [ItemRow(Len(list_items) + 1, T_Milk) EXCEPT !.list_id = clients[c].listId])
    /\ clients' = [clients EXCEPT ![c].pc = "done"]
    /\ UNCHANGED <<lists, notListRaceVars>>

InitListRace ==
    /\ collation = "C"
    /\ lists = <<>>
    /\ list_items = <<>>
    /\ list_history = <<>>
    /\ notes = <<>>
    /\ events = <<>>
    /\ tasks = <<>>
    /\ NoQueryState
    /\ NoSearchState
    /\ NoRaceState
    /\ NoGroceryState
    /\ NoViewState
    /\ NoPasswordState
    /\ NoNotesState
    /\ NoClockState
    /\ NoFormState
    /\ NoMemberState
    /\ NoCalendarState
    /\ clients = [c \in Clients |-> Idle]

NextListRace ==
    \/ \E c \in Clients, path \in {"grocery-list", "addGrocery"}, failed \in BOOLEAN :
          LookupList(c, path, failed)
    \/ \E c \in Clients : CreateList(c)
    \/ \E c \in Clients : InsertQuickItem(c)

SpecListRace == InitListRace /\ [][NextListRace]_vars

---------------------------------------------------------------------------
(* The forms that add grocery items: the GroceryList add form, its        *)
(* quantity dialog and quick re-add buttons, and the Dashboard's grocery   *)
(* modal                                                                   *)

MaxAdded == 2

Null == [kind |-> "null", num |-> 0, str |-> <<>>]

notFormVars ==
    <<collation, list_history, notes, events, tasks,
      previousWeekData, previousWeekItems, historyData, counts, textMap,
      frequentItems, fetched, searchTerm, searchCache, queried, runs,
      callVars, raceVars, items, currentWeek, startFresh, lastAction,
      viewVars, passwordVars, notesVars, clockVars, listRaceVars, memberVars,
      calendarVars>>

\* quantity?.trim() || null   /   groceryQuantity.trim() || null
QuantityAsTyped(quantity) ==
    IF quantity.kind = "string" THEN Str(quantity.str) ELSE Null
QuantityOrNull(quantity) ==
    IF quantity.kind = "string" /\ trim(quantity.str) # <<>>
    THEN Str(trim(quantity.str)) ELSE Null

\* .from('list_items').insert([{ list_id, text: text.trim(), quantity, added_by }])
InsertItemQuantity(listId, text, quantity) ==
    Append(list_items,
           [ItemRow(nextId, trim(text)) EXCEPT !.list_id = listId,
                                                !.quantity = QuantityOrNull(quantity)])

\* addItemMutation.mutate({ text, quantity }): the mutationFn, which returns
\* without a request when there is no list or the trimmed text is empty,
\* followed by onSuccess
AddItemMutate(text, quantity) ==
    /\ nextId <= MaxAdded
    /\ IF lists = <<>> \/ trim(text) = <<>>
       THEN UNCHANGED <<list_items, nextId>>
       ELSE /\ list_items' = InsertItemQuantity(lists[1].id, text, quantity)
            /\ nextId' = nextId + 1
    /\ newItemText' = <<>>
    /\ newItemQuantity' = <<>>
    /\ pendingItemText' = <<>>
    /\ showQuantityDialog' = FALSE
    /\ UNCHANGED <<lists, groceryItem, groceryQuantity, notFormVars>>

\* onChange of the add form's text input
SetNewItemText(text) ==
    /\ newItemText' = text
    /\ UNCHANGED <<newItemQuantity, pendingItemText, showQuantityDialog, groceryItem,
                   groceryQuantity, lists, list_items, nextId, notFormVars>>

\* onChange of the quantity dialog's input
SetNewItemQuantity(quantity) ==
    /\ showQuantityDialog
    /\ newItemQuantity' = quantity
    /\ UNCHANGED <<newItemText, pendingItemText, showQuantityDialog, groceryItem,
                   groceryQuantity, lists, list_items, nextId, notFormVars>>

\* handleSubmit of the add form (the Add button is disabled while the
\* trimmed text is empty)
HandleSubmit ==
    /\ trim(newItemText) # <<>>
    /\ IF trim(newItemQuantity) = <<>>
       THEN /\ pendingItemText' = newItemText
            /\ showQuantityDialog' = TRUE
            /\ UNCHANGED <<newItemText, newItemQuantity, groceryItem, groceryQuantity,
                           lists, list_items, nextId, notFormVars>>
       ELSE AddItemMutate(newItemText, Str(newItemQuantity))

\* handleQuantityDialogSubmit: quantity: newItemQuantity.trim() || undefined
HandleQuantityDialogSubmit ==
    /\ showQuantityDialog
    /\ AddItemMutate(pendingItemText,
                     IF trim(newItemQuantity) # <<>> THEN Str(trim(newItemQuantity))
                     ELSE Undefined)

\* handleSkipQuantity
HandleSkipQuantity ==
    /\ showQuantityDialog
    /\ AddItemMutate(pendingItemText, Undefined)

\* the close button of the quantity dialog
CloseQuantityDialog ==
    /\ showQuantityDialog
    /\ showQuantityDialog' = FALSE
    /\ newItemQuantity' = <<>>
    /\ pendingItemText' = <<>>
    /\ UNCHANGED <<newItemText, groceryItem, groceryQuantity, lists, list_items, nextId,
                   notFormVars>>

\* a button of the Previously Ordered section: prevItem.quantity || ''
ClickPreviousWeekItem(i) ==
    /\ i \in DOMAIN previousWeekItems
    /\ newItemText' = previousWeekItems[i].text
    /\ newItemQuantity' = IF Truthy(previousWeekItems[i].quantity)
                          THEN previousWeekItems[i].quantity.str ELSE <<>>
    /\ pendingItemText' = previousWeekItems[i].text
    /\ showQuantityDialog' = TRUE
    /\ UNCHANGED <<groceryItem, groceryQuantity, lists, list_items, nextId, notFormVars>>

\* itemText.charAt(0).toUpperCase() + itemText.slice(1)
Capitalize(text) ==
    [i \in 1..Len(text) |->
        IF i = 1 /\ text[i] \in 97..122 THEN text[i] - 32 ELSE text[i]]

\* a button of the Frequently Bought section
ClickFrequentItem(i) ==
    /\ i \in DOMAIN frequentItems
    /\ newItemText' = Capitalize(frequentItems[i])
    /\ newItemQuantity' = <<>>
    /\ pendingItemText' = Capitalize(frequentItems[i])
    /\ showQuantityDialog' = TRUE
    /\ UNCHANGED <<groceryItem, groceryQuantity, lists, list_items, nextId, notFormVars>>

\* onChange of the Dashboard modal's inputs
SetGroceryItem(text) ==
    /\ groceryItem' = text
    /\ UNCHANGED <<newItemText, newItemQuantity, pendingItemText, showQuantityDialog,
                   groceryQuantity, lists, list_items, nextId, notFormVars>>

SetGroceryQuantity(quantity) ==
    /\ groceryQuantity' = quantity
    /\ UNCHANGED <<newItemText, newItemQuantity, pendingItemText, showQuantityDialog,
                   groceryItem, lists, list_items, nextId, notFormVars>>

\* submit of the Dashboard's grocery modal: addGroceryMutation and its
\* onSuccess (the Add Item button is disabled while the trimmed item is empty)
SubmitGroceryModal ==
    /\ nextId <= MaxAdded
    /\ trim(groceryItem) # <<>>
    /\ lists' = IF GroceryLists(TheHousehold) = <<>>
                THEN Append(lists, [id |-> TheList, household_id |-> TheHousehold])
                ELSE lists
    /\ list_items' = InsertItemQuantity(lists'[1].id, groceryItem, Str(groceryQuantity))
    /\ nextId' = nextId + 1
    /\ groceryItem' = <<>>
    /\ groceryQuantity' = <<>>
    /\ UNCHANGED <<newItemText, newItemQuantity, pendingItemText, showQuantityDialog,
                   notFormVars>>

T_7Spaced == <<32, 55, 32>>

TypedTexts == {T_twoSpaces, T_milkSpaced}

TypedQuantities == {T_twoSpaces, T_7Spaced}

InitForms ==
    /\ collation = "C"
    /\ lists \in {<<>>, OneGroceryList}
    /\ list_items = <<>>
    /\ list_history = <<>>
    /\ notes = <<>>
    /\ events = <<>>
    /\ tasks = <<>>
    /\ previousWeekCalls = <<>>
    /\ previousWeekData = <<>>
    /\ previousWeekItems = <<[text |-> T_twoSpaces, quantity |-> Str(T_twoSpaces)],
                             [text |-> T_Bread, quantity |-> Null]>>
    /\ historyData = <<>>
    /\ counts = <<>>
    /\ textMap = <<>>
    /\ frequentItems = <<T_milk>>
    /\ fetched = {}
    /\ NoSearchState
    /\ NoRaceState
    /\ NoGroceryState
    /\ NoViewState
    /\ NoPasswordState
    /\ NoExtraState

NextForms ==
    \/ \E text \in TypedTexts : SetNewItemText(text)
    \/ \E quantity \in TypedQuantities : SetNewItemQuantity(quantity)
    \/ HandleSubmit
    \/ HandleQuantityDialogSubmit
    \/ HandleSkipQuantity
    \/ CloseQuantityDialog
    \/ \E i \in DOMAIN previousWeekItems : ClickPreviousWeekItem(i)
    \/ \E i \in DOMAIN frequentItems : ClickFrequentItem(i)
    \/ \E text \in TypedTexts : SetGroceryItem(text)
    \/ \E quantity \in TypedQuantities : SetGroceryQuantity(quantity)
    \/ SubmitGroceryModal

SpecForms == InitForms /\ [][NextForms]_vars

---------------------------------------------------------------------------
(* Settings: household members.  A session is a signed-in browser tab; the *)
(* owner has two tabs open and another member has one.                     *)

MaxMemberOps == 2

ThirdUser == 3      \* a user with a profile who is not a member at first

Sessions == {"ownerTab", "ownerOtherTab", "memberTab"}

\* userId of a session
SessionUser(s) == IF s = "memberTab" THEN OtherUser ELSE TheUser

T_bob       == <<98, 111, 98>>
T_BobSpaced == <<32, 66, 111, 98, 32>>
T_amy       == <<97, 109, 121>>
T_zed       == <<122, 101, 100>>

\* table profiles
Profiles ==
    {[id |-> TheUser, email |-> T_amy], [id |-> OtherUser, email |-> T_zed],
     [id |-> ThirdUser, email |-> T_bob]}

notMemberVars ==
    <<collation, lists, list_items, list_history, notes, events, tasks,
      previousWeekData, previousWeekItems, historyData, counts, textMap,
      frequentItems, fetched, searchTerm, searchCache, queried, runs,
      callVars, raceVars, groceryVars, viewVars, passwordVars, notesVars, clockVars,
      listRaceVars, formVars, calendarVars>>

MemberRow(user, role) == [household_id |-> TheHousehold, user_id |-> user, role |-> role]

\* .from('household_members').select(...).eq('household_id', householdId)
MembersQuery(s) ==
    /\ members' = [members EXCEPT ![s] =
                      SelectSeq2(household_members,
                                 {m \in Range(household_members) : m.household_id = TheHousehold})]
    /\ UNCHANGED <<household_members, addMember, message, memberLog, notMemberVars>>

\* members.find(m => m.user_id === userId)?.role === 'owner'
IsOwner(s) ==
    \E i \in DOMAIN members[s] :
        /\ members[s][i].user_id = SessionUser(s)
        /\ \A j \in 1..(i - 1) : members[s][j].user_id # SessionUser(s)
        /\ members[s][i].role = "owner"

\* .single(): the row when exactly one row matches, otherwise no data
Single(rows) == IF Cardinality(rows) = 1 THEN rows ELSE {}

Waiting == [pc |-> "idle", user |-> 0]

\* addMemberMutation, up to the response of the profile lookup (the form is
\* rendered for an owner, its button is disabled while the email is empty)
\* .eq('email', inviteEmail.trim().toLowerCase()).single()
StartAddMember(s, inviteEmail) ==
    /\ IsOwner(s)
    /\ trim(inviteEmail) # <<>>
    /\ addMember[s].pc = "idle"
    /\ Len(memberLog) < MaxMemberOps
    /\ LET profiles == Single({p \in Profiles : p.email = toLowerCase(trim(inviteEmail))})
       IN  IF profiles = {}
           THEN /\ message' = [message EXCEPT ![s] = "No user found with that email. They need to sign up first!"]
                /\ UNCHANGED addMember
           ELSE /\ message' = [message EXCEPT ![s] = ""]
                /\ addMember' = [addMember EXCEPT ![s] =
                                    [pc |-> "check", user |-> (CHOOSE p \in profiles : TRUE).id]]
    /\ UNCHANGED <<household_members, members, memberLog, notMemberVars>>

\* the 'already a member' lookup and its response; `failed`: the request
\* fails and `existing` is null
CheckExisting(s, failed) ==
    /\ addMember[s].pc = "check"
    /\ LET existing == IF failed THEN {}
                       ELSE Single({i \in DOMAIN household_members :
                                       /\ household_members[i].household_id = TheHousehold
                                       /\ household_members[i].user_id = addMember[s].user})
       IN  IF existing # {}
           THEN /\ message' = [message EXCEPT ![s] = "This user is already a member of your household!"]
                /\ addMember' = [addMember EXCEPT ![s] = Waiting]
           ELSE /\ addMember' = [addMember EXCEPT ![s].pc = "insert"]
                /\ UNCHANGED message
    /\ UNCHANGED <<household_members, members, memberLog, notMemberVars>>

\* .from('household_members').insert([{ household_id, user_id, role: 'member' }])
InsertMember(s) ==
    /\ addMember[s].pc = "insert"
    /\ household_members' = Append(household_members, MemberRow(addMember[s].user, "member"))
    /\ memberLog' = Append(memberLog, [session |-> s, kind |-> "add", user |-> addMember[s].user])
    /\ message' = [message EXCEPT ![s] = "Member added successfully!"]
    /\ addMember' = [addMember EXCEPT ![s] = Waiting]
    /\ UNCHANGED <<members, notMemberVars>>

\* the Remove button is rendered when isOwner && member.user_id !== userId
RemoveOfferedForSelf(s, member) == IsOwner(s)
RemoveOffered(s, member) == IsOwner(s) /\ member.user_id # SessionUser(s)

\* removeMemberMutation on a member of the fetched list
RemoveMember(s, k) ==
    /\ k \in DOMAIN members[s]
    /\ RemoveOffered(s, members[s][k])
    /\ Len(memberLog) < MaxMemberOps
    /\ household_members' =
          SelectSeq2(household_members,
                     {m \in Range(household_members) :
                         ~(m.household_id = TheHousehold /\ m.user_id = members[s][k].user_id)})
    /\ memberLog' = Append(memberLog, [session |-> s, kind |-> "remove",
                                       user |-> members[s][k].user_id])
    /\ message' = [message EXCEPT ![s] = "Member removed successfully!"]
    /\ UNCHANGED <<members, addMember, notMemberVars>>

InviteEmails == {T_BobSpaced, T_milk}

InitMembers ==
    /\ collation = "C"
    /\ lists = OneGroceryList
    /\ list_items = <<>>
    /\ list_history = <<>>
    /\ notes = <<>>
    /\ events = <<>>
    /\ tasks = <<>>
    /\ NoQueryState
    /\ NoSearchState
    /\ NoRaceState
    /\ NoGroceryState
    /\ NoViewState
    /\ NoPasswordState
    /\ NoNotesState
    /\ NoClockState
    /\ NoClients
    /\ NoFormState
    /\ NoCalendarState
    /\ household_members = <<MemberRow(TheUser, "owner"), MemberRow(OtherUser, "member")>>
    /\ members = [s \in Sessions |-> <<>>]
    /\ addMember = [s \in Sessions |-> Waiting]
    /\ message = [s \in Sessions |-> ""]
    /\ memberLog = <<>>

NextMembers ==
    \/ \E s \in Sessions : MembersQuery(s)
    \/ \E s \in Sessions, e \in InviteEmails : StartAddMember(s, e)
    \/ \E s \in Sessions, failed \in BOOLEAN : CheckExisting(s, failed)
    \/ \E s \in Sessions : InsertMember(s)
    \/ \E s \in Sessions, k \in 1..(MaxMemberOps + 2) : RemoveMember(s, k)

SpecMembers == InitMembers /\ [][NextMembers]_vars

---------------------------------------------------------------------------
(* Calendar: the month shown, the cached events of a month and the event   *)
(* mutations.  A month is counted in months since January of year 0, so    *)
(* that getMonth() is month % 12 and getFullYear() is month \div 12.        *)

MaxMonthsAway   == 12
MaxEvents       == 1
MaxEventFetches == 2

notCalendarVars ==
    <<collation, lists, list_items, list_history, notes, tasks,
      previousWeekData, previousWeekItems, historyData, counts, textMap,
      frequentItems, fetched, searchTerm, searchCache, queried, runs,
      callVars, raceVars, groceryVars, viewVars, passwordVars, notesVars, clockVars,
      listRaceVars, formVars, memberVars>>

\* the month the Calendar opens with: useState(new Date())
ThisMonth == 12 + TheMonth

\* currentMonth.getMonth()
GetMonth(month) == month % 12

\* queryKey: ['events', householdId, currentMonth.getMonth()]
EventsQueryKey(hh, month) == <<"events", hh, GetMonth(month)>>

EventsKeys == {<<"events", TheHousehold, m>> : m \in 0..(2 * MaxMonthsAway + ThisMonth)}

NoEvents == [has |-> FALSE, month |-> 0, data |-> <<>>, invalidated |-> FALSE]

\* .eq('household_id', householdId).gte('start_time', start).lte('start_time', end)
EventsOfMonth(hh, month) ==
    SelectSeq2(events, {e \in Range(events) : e.household_id = hh /\ e.start_month = month})

\* const { data: events = [] } = useQuery(...)
CalendarEvents ==
    LET entry == eventsCache[EventsQueryKey(TheHousehold, currentMonth)]
    IN  IF entry.has THEN entry.data ELSE <<>>

\* previousMonth: new Date(currentMonth.getFullYear(), currentMonth.getMonth() - 1)
PreviousMonth ==
    /\ currentMonth > ThisMonth - MaxMonthsAway
    /\ currentMonth' = (currentMonth \div 12) * 12 + (GetMonth(currentMonth) - 1)
    /\ UNCHANGED <<eventsCache, eventFetches, nextEventId, events, notCalendarVars>>

\* nextMonth: new Date(currentMonth.getFullYear(), currentMonth.getMonth() + 1)
NextMonth ==
    /\ currentMonth < ThisMonth + MaxMonthsAway
    /\ currentMonth' = (currentMonth \div 12) * 12 + (GetMonth(currentMonth) + 1)
    /\ UNCHANGED <<eventsCache, eventFetches, nextEventId, events, notCalendarVars>>

\* the events queryFn for the month shown
EventsQuery ==
    /\ eventFetches < MaxEventFetches
    /\ eventFetches' = eventFetches + 1
    /\ eventsCache' = [eventsCache EXCEPT ![EventsQueryKey(TheHousehold, currentMonth)] =
                           [has |-> TRUE, month |-> currentMonth,
                            data |-> EventsOfMonth(TheHousehold, currentMonth),
                            invalidated |-> FALSE]]
    /\ UNCHANGED <<currentMonth, nextEventId, events, notCalendarVars>>

\* queryClient.invalidateQueries({ queryKey: ['events', householdId] })
InvalidateEvents(cache) ==
    [k \in DOMAIN cache |->
        IF MatchesQueryKey(<<"events", TheHousehold>>, k)
        THEN [cache[k] EXCEPT !.invalidated = TRUE] ELSE cache[k]]

\* addEventMutation for a day of the month shown
AddEvent(title) ==
    /\ trim(title) # <<>>
    /\ nextEventId <= MaxEvents
    /\ events' = Append(events, [id |-> nextEventId, household_id |-> TheHousehold,
                                 title |-> trim(title), start_month |-> currentMonth])
    /\ nextEventId' = nextEventId + 1
    /\ eventsCache' = InvalidateEvents(eventsCache)
    /\ UNCHANGED <<currentMonth, eventFetches, notCalendarVars>>

\* deleteEventMutation on an event of the fetched list
DeleteEvent(k) ==
    /\ k \in DOMAIN CalendarEvents
    /\ events' = SelectSeq2(events, {e \in Range(events) : e.id # CalendarEvents[k].id})
    /\ eventsCache' = InvalidateEvents(eventsCache)
    /\ UNCHANGED <<currentMonth, eventFetches, nextEventId, notCalendarVars>>

InitCalendar ==
    /\ collation = "C"
    /\ lists = OneGroceryList
    /\ list_items = <<>>
    /\ list_history = <<>>
    /\ notes = <<>>
    /\ events = <<>>
    /\ tasks = <<>>
    /\ NoQueryState
    /\ NoSearchState
    /\ NoRaceState
    /\ NoGroceryState
    /\ NoViewState
    /\ NoPasswordState
    /\ NoNotesState
    /\ NoClockState
    /\ NoClients
    /\ NoFormState
    /\ NoMemberState
    /\ currentMonth = ThisMonth
    /\ eventsCache = [k \in EventsKeys |-> NoEvents]
    /\ eventFetches = 0
    /\ nextEventId = 1

NextCalendar ==
    \/ PreviousMonth
    \/ NextMonth
    \/ EventsQuery
    \/ AddEvent(T_MilkRun)
    \/ \E k \in 1..MaxEvents : DeleteEvent(k)

SpecCalendar == InitCalendar /\ [][NextCalendar]_vars

---------------------------------------------------------------------------
(* Properties of the Search component *)

\* C9 as stated: a term with fewer than 2 characters after trimming shows
\* the empty list and no remote query is ever issued for such a term
C9_ShortAfterTrimNotQueried ==
    /\ \A t \in queried : Len(trim(t)) >= 2
    /\ Len(trim(searchTerm)) < 2 => results = <<>>

\* C9 amended: a term with fewer than 2 characters, counted without
\* trimming, shows the empty list and no remote query is ever issued for it
C9_ShortTermNotQueried ==
    /\ \A t \in queried : Len(t) >= 2
    /\ Len(searchTerm) < 2 => results = <<>>

C9_Witness ==
    /\ Len(searchTerm) = 1
    /\ \E i \in DOMAIN list_items : ILikeTerm(list_items[i].text, searchTerm)
    /\ \E r \in DOMAIN runs : runs[r].results # <<>>
    /\ results = <<>>

KindRank(type) ==
    CASE type = "grocery" -> 1
      [] type = "note"    -> 2
      [] type = "event"   -> 3
      [] type = "task"    -> 4

\* C10: every search result list is grouped in the order grocery, note,
\* event, task, and two searches with the same term over identical stored
\* data return identically ordered lists
C10_FixedOrderDeterministic ==
    /\ \A r \in DOMAIN runs :
          \A i, j \in DOMAIN runs[r].results :
              i < j => KindRank(runs[r].results[i].type) <= KindRank(runs[r].results[j].type)
    /\ \A a, b \in DOMAIN runs :
          (runs[a].term = runs[b].term /\ runs[a].snapshot = runs[b].snapshot)
              => runs[a].results = runs[b].results

\* t occurs in s as a contiguous run of characters
IsSubstring(t, s) ==
    \E i \in 1..(Len(s) + 1) :
        i + Len(t) - 1 <= Len(s) /\ SubSeq(s, i, i + Len(t) - 1) = t

ContainsIgnoringCase(field, term) == IsSubstring(toLowerCase(term), toLowerCase(field))

ResultKinds == {"grocery", "note", "event", "task"}

OfKind(rs, kind) == SelectSeq2(rs, {r \in Range(rs) : r.type = kind})

\* the stored record a search result stands for belongs to the household
\* and its searched field contains the term
OwnMatchingRecord(snap, result, term) ==
    CASE result.type = "grocery" ->
            \E row \in snap.list_items :
                /\ row.id = result.id
                /\ \E l \in snap.lists :
                      l.id = row.list_id /\ l.household_id = TheHousehold
                /\ ContainsIgnoringCase(row.text, term)
      [] result.type = "note" ->
            \E row \in snap.notes :
                /\ row.id = result.id
                /\ row.household_id = TheHousehold
                /\ ContainsIgnoringCase(row.content, term)
      [] result.type = "event" ->
            \E row \in snap.events :
                /\ row.id = result.id
                /\ row.household_id = TheHousehold
                /\ ContainsIgnoringCase(row.title, term)
      [] result.type = "task" ->
            \E row \in snap.tasks :
                /\ row.id = result.id
                /\ row.household_id = TheHousehold
                /\ ContainsIgnoringCase(row.title, term)

\* C11: every search returns at most 5 results of each kind, at most 20 in
\* total, and every result is a record of the searching household whose
\* searched field contains the term as a case-insensitive substring
C11_LimitedOwnMatching ==
    \A r \in DOMAIN runs :
        /\ \A kind \in ResultKinds : Len(OfKind(runs[r].results, kind)) <= 5
        /\ Len(runs[r].results) <= 20
        /\ \A i \in DOMAIN runs[r].results :
              OwnMatchingRecord(runs[r].snapshot, runs[r].results[i], runs[r].term)

\* the matches of one kind, as a search without failures returns them
KindMatches(kind, term) ==
    CASE kind = "grocery" -> GroceryMatches(TheHousehold, term)
      [] kind = "note"    -> NoteMatches(TheHousehold, term)
      [] kind = "event"   -> EventMatches(TheHousehold, term)
      [] kind = "task"    -> TaskMatches(TheHousehold, term)

\* the kind of results a fetch feeds
KindOfFetch(fetch) ==
    CASE fetch \in {"lists", "list_items"} -> "grocery"
      [] fetch = "notes"  -> "note"
      [] fetch = "events" -> "event"
      [] fetch = "tasks"  -> "task"

C14_NoteTitleTruncated ==
    \A r \in DOMAIN runs :
        \A i \in DOMAIN runs[r].results :
            runs[r].results[i].type = "note" =>
                \E row \in runs[r].snapshot.notes :
                    /\ row.id = runs[r].results[i].id
                    /\ runs[r].results[i].title =
                          IF Len(row.content) <= 50 THEN row.content
                          ELSE SubSeq(row.content, 1, 50) \o <<46, 46, 46>>

C14_Witness ==
    \E r \in DOMAIN runs :
        /\ \E i \in DOMAIN runs[r].results :
              /\ runs[r].results[i].type = "note"
              /\ Len(runs[r].results[i].title) = 53
        /\ \E i \in DOMAIN runs[r].results :
              /\ runs[r].results[i].type = "note"
              /\ Len(runs[r].results[i].title) = 50
        /\ \E i \in DOMAIN runs[r].results :
              /\ runs[r].results[i].type = "note"
              /\ Len(runs[r].results[i].title) = 49

\* C13: whatever the interleaving of term edits and responses, the results
\* shown are the ones computed for the current term, or the empty default
\* while the current term has no response yet (the tables do not change in
\* SpecSearchRace)
C13_ResultsOfCurrentTerm ==
    \/ results = <<>>
    \/ /\ SearchEnabled(searchTerm)
       /\ results = AllResults(TheHousehold, searchTerm)

C13_Witness ==
    /\ superseded # {}
    /\ searchTerm \notin superseded
    /\ results # <<>>
    /\ \E t \in superseded :
          /\ searchCache[QueryKey(TheHousehold, t)].has
          /\ searchCache[QueryKey(TheHousehold, t)].data # results

---------------------------------------------------------------------------
(* Properties of the grocery list mutations *)

\* the step is a Start Fresh run that succeeded
StartFreshSucceeds == startFresh' = Append(startFresh, "success")

\* C16: after a successful Start Fresh, every item that was completed in the
\* list when it ran is in list_history with the current week's week_start
\* and no longer in the list, and every uncompleted item is still in the
\* list unchanged
C16_CompletedArchivedOthersKept ==
    [][StartFreshSucceeds =>
        \A row \in Range(list_items) :
            IF row.is_completed
            THEN /\ \E j \in (Len(list_history) + 1)..Len(list_history') :
                      /\ list_history'[j].list_id = row.list_id
                      /\ list_history'[j].text = row.text
                      /\ list_history'[j].week_start = currentWeek
                 /\ row.id \notin ItemIds(list_items')
            ELSE row \in Range(list_items')]_vars

IsPrefix(a, b) == Len(a) <= Len(b) /\ SubSeq(b, 1, Len(a)) = a

\* C17: no client operation updates or deletes a list_history row: every
\* step keeps the rows written so far, in place, and at most appends rows
C17_HistoryOnlyGrows == [][IsPrefix(list_history, list_history')]_vars

C17_Witness ==
    /\ Len(startFresh) = 2
    /\ \E j, k \in DOMAIN list_history :
          list_history[j].week_start < list_history[k].week_start
    /\ list_items # <<>>

\* the rows a step appended to list_history
NewHistory == SubSeq(list_history', Len(list_history) + 1, Len(list_history'))

\* C22: Start Fresh inserts the history rows before it deletes: a run whose
\* history insert fails deletes nothing, a snapshot without completed items
\* leads to no history row, and every item a run removes from the list is
\* among the history rows the same run inserted
C22_ArchivedBeforeDeleted ==
    [][/\ (startFresh' = Append(startFresh, "historyError")
            => list_items' = list_items /\ list_history' = list_history)
       /\ (CompletedItems(items) = <<>> => list_history' = list_history)
       /\ (startFresh' # startFresh
            => \A r \in Range(list_items) :
                  r.id \notin ItemIds(list_items')
                  => \E h \in Range(NewHistory) :
                        h.text = r.text /\ h.list_id = r.list_id)]_vars

C22_Witness ==
    /\ startFresh = <<"historyError", "deleteError">>
    /\ list_history # <<>>
    /\ \E r \in Range(list_items) :
          r.is_completed /\ \E h \in Range(list_history) : h.text = r.text

\* C23: each completed item is archived to list_history at most once, also
\* when Start Fresh is run again after its delete step failed (every item
\* of this specification has a text of its own, so two history rows with
\* one text are two archivings of one item)
C23_ArchivedAtMostOnce ==
    \A i, j \in DOMAIN list_history :
        i # j => list_history[i].text # list_history[j].text

\* ids of the items that are completed in the client's cached snapshot
SnapshotCompleted == {r.id : r \in {c \in Range(items) : c.is_completed}}

\* C24: Clear All and a successful Start Fresh delete exactly the items that
\* are completed in the client's cached snapshot, whatever their state in
\* the store, and Start Fresh archives each of them; no other item is
\* deleted by either operation
C24_SnapshotCompletedDeleted ==
    [][/\ (lastAction' = "clearCompleted" \/ startFresh' = Append(startFresh, "success"))
           => ItemIds(list_items') = ItemIds(list_items) \ SnapshotCompleted
       /\ (startFresh' # startFresh /\ startFresh'[Len(startFresh')] # "historyError")
           => \A c \in Range(items) :
                 c.is_completed => \E h \in Range(NewHistory) : h.text = c.text]_vars

\* Start Fresh has just archived an item that is un-completed in the store
C24_Witness ==
    /\ lastAction = "startFresh"
    /\ startFresh = <<"deleteError">>
    /\ \E r \in Range(list_items) :
          /\ ~r.is_completed
          /\ r.id \in SnapshotCompleted
          /\ \E h \in Range(list_history) : h.text = r.text

\* C25: the week_start written by Start Fresh is the date of the Sunday that
\* starts the user's local week: a Sunday, on or before the local date of
\* the run and at most 6 days before it, for every time and UTC offset
C25_LocalSunday ==
    weekStartCall.made
    => LET localDate == (weekStartCall.today + weekStartCall.utcOffset) \div 24
           sunday    == weekStartCall.week_start
       IN  /\ sunday % 7 = 0
           /\ sunday <= localDate
           /\ localDate - sunday <= 6

\* C26: a household has at most one grocery list, for every interleaving
\* of get-or-create executions, so that every item is written to one list
C26_OneGroceryList ==
    /\ Cardinality({l \in Range(lists) : l.household_id = TheHousehold}) <= 1
    /\ \A a, b \in Range(list_items) : a.list_id = b.list_id

\* C27: no list item with empty or whitespace-only text is inserted by any
\* of the add paths; every inserted text is trimmed, and a quantity is
\* stored either as null or as a trimmed, non-empty text
C27_TrimmedTextNullQuantity ==
    \A r \in Range(list_items) :
        /\ r.text # <<>>
        /\ trim(r.text) = r.text
        /\ \/ r.quantity = Null
           \/ /\ r.quantity.kind = "string"
              /\ r.quantity.str # <<>>
              /\ trim(r.quantity.str) = r.quantity.str

\* an item typed as ' milk ' is stored with a null quantity and another
\* with the quantity typed as ' 7 '
C27_Witness ==
    /\ \E r \in Range(list_items) : r.text = T_milk /\ r.quantity = Null
    /\ \E r \in Range(list_items) : r.quantity = Str(T_7)
    /\ \E r \in Range(list_items) : r.text = T_Bread

---------------------------------------------------------------------------
(* Properties of the household membership *)

\* C28: add member inserts only for a user who is not yet a member, so that
\* no user is a member of the household twice, also when two add-member
\* requests for one email run at the same time
C28_NoDoubleMembership ==
    \A i, j \in DOMAIN household_members :
        (/\ household_members[i].household_id = household_members[j].household_id
         /\ household_members[i].user_id = household_members[j].user_id)
        => i = j

Owners(rows) == {i \in DOMAIN rows : rows[i].role = "owner"}

\* C29: membership requests come only from an owner, an owner never removes
\* their own membership, every added member has role 'member'; the number
\* of owners never increases and a household with an owner keeps one
C29_OwnerKept ==
    /\ [](\A i \in DOMAIN memberLog :
              /\ \E m \in Range(household_members) :
                    m.user_id = SessionUser(memberLog[i].session) /\ m.role = "owner"
              /\ (memberLog[i].kind = "remove"
                    => memberLog[i].user # SessionUser(memberLog[i].session)))
    /\ [][/\ Cardinality(Owners(household_members')) <= Cardinality(Owners(household_members))
           /\ (Owners(household_members) # {} => Owners(household_members') # {})
           /\ (Len(household_members') > Len(household_members)
                 => household_members'[Len(household_members')].role = "member")]_vars

\* the owner has added a member and removed one
C29_Witness ==
    /\ \E i \in DOMAIN memberLog : memberLog[i].kind = "add"
    /\ \E i \in DOMAIN memberLog : memberLog[i].kind = "remove"
    /\ \E m \in Range(household_members) : m.user_id = ThirdUser /\ m.role = "member"
    /\ IsOwner("ownerTab")
    /\ ~IsOwner("memberTab") /\ members["memberTab"] # <<>>

---------------------------------------------------------------------------
(* Properties of the Calendar *)

\* C30: the cached event lists of two months are never shared: every event
\* the Calendar shows is an event of the month and year shown, and after an
\* event is added or deleted the cache entry of the month shown is
\* invalidated (an entry not invalidated holds the stored events)
C30_MonthsNotShared ==
    /\ \A e \in Range(CalendarEvents) : e.start_month = currentMonth
    /\ LET entry == eventsCache[EventsQueryKey(TheHousehold, currentMonth)]
       IN  (entry.has /\ ~entry.invalidated /\ entry.month = currentMonth)
           => entry.data = EventsOfMonth(TheHousehold, currentMonth)

---------------------------------------------------------------------------
(* Properties of the views' cache invalidation and error reporting *)

\* C18: after every successful mutation, every cached query that reads a
\* collection the mutation wrote is invalidated: no query whose data was
\* fetched before the write is left un-invalidated
C18_ReadersInvalidated ==
    \A key \in DOMAIN queryState :
        queryState[key].outdated => queryState[key].invalidated

\* C19: whenever a mutation's remote call returns an error, an error
\* message for that action is visible
C19_ErrorShown ==
    (mutationLog # <<>> /\ ~mutationLog[Len(mutationLog)].ok) =>
        banner = [type |-> "error", of |-> mutationLog[Len(mutationLog)].name]

---------------------------------------------------------------------------
(* Properties of the change-password form *)

\* C20: a submit with a new password of fewer than 6 characters, or one that
\* differs from the confirmation, ends in the error message 'Password must
\* be at least 6 characters' / 'Passwords do not match', sends no update
\* to the auth service and leaves the entered fields unchanged
C20_PasswordFailsFast ==
    [][(/\ submits' = submits + 1
        /\ (Len(newPassword) < 6 \/ newPassword # confirmPassword))
       => /\ passwordMessage' =
                [type |-> "error",
                 text |-> IF Len(newPassword) < 6
                          THEN "Password must be at least 6 characters"
                          ELSE "Passwords do not match"]
          /\ updateUserCalls' = updateUserCalls
          /\ newPassword' = newPassword
          /\ confirmPassword' = confirmPassword]_vars

C20_Witness ==
    /\ passwordMessage = [type |-> "error", text |-> "Password must be at least 6 characters"]
    /\ Len(newPassword) = 5
    /\ newPassword = confirmPassword
    /\ Len(updateUserCalls) = 1
    /\ submits = 2

---------------------------------------------------------------------------
(* Properties of the notes views *)

\* the stored notes that are private to another member
PrivateOfOthers == {n.id : n \in {m \in Range(notes) : m.is_private /\ m.created_by # userId}}

\* C21: a note marked private is visible only to its creator: neither the
\* notes list, the dashboard's recent notes nor the search results of
\* another member contain it
C21_PrivateOnlyForCreator ==
    /\ \A n \in Range(notesData) : n.id \notin PrivateOfOthers
    /\ \A n \in Range(recentNotes) : n.id \notin PrivateOfOthers
    /\ \A r \in Range(results) : r.type = "note" => r.id \notin PrivateOfOthers

====
